---- MODULE Spec2Model ----
(***************************************************************************)
(* ekspeek: the cluster health aggregation (pkg/k8s CheckClusterHealth and *)
(* its eight checks), the cluster-health command with its summary, and the *)
(* disposable probe pods of the networking diagnostics.                    *)
(***************************************************************************)
EXTENDS Integers, Sequences, FiniteSets, TLC

(***************************************************************************)
(* Bounds of the model.                                                    *)
(***************************************************************************)
MaxNodes == 3
MaxObjects == 2
MaxCalls == 2
MaxEvents == 2
MaxGroups == 2

(***************************************************************************)
(* State.                                                                  *)
(*   cluster   the objects of the cluster (unchanged by a health run)      *)
(*   acc       the outcome each accessor call site answers with, decided   *)
(*             at the first call and kept: "unset" before that             *)
(*   ctxDone   the invocation context is cancelled or past its deadline    *)
(*   pc        the position of the running command                         *)
(*   status    the snapshot CheckClusterHealth is filling                  *)
(*   results   what each finished CheckClusterHealth call returned         *)
(*   out       what the command has printed and how it exited              *)
(*   requests  the requests sent to the cluster-state backend              *)
(*   testPods  the probe pods that exist in the cluster                    *)
(*   probe     the running probe operation                                 *)
(***************************************************************************)
VARIABLES cluster, acc, ctxDone, pc, status, results, out, requests, testPods, probe

vars == <<cluster, acc, ctxDone, pc, status, results, out, requests, testPods, probe>>

probeVars == <<testPods, probe>>

(***************************************************************************)
(* Generic helpers.                                                        *)
(***************************************************************************)
MapPut(m, k, v) == [x \in (DOMAIN m) \cup {k} |-> IF x = k THEN v ELSE m[x]]

EmptyMap == [x \in {} |-> <<>>]

RECURSIVE Concat(_)
Concat(ss) == IF ss = <<>> THEN <<>> ELSE Head(ss) \o Concat(Tail(ss))

(***************************************************************************)
(* The cluster: the objects the cluster-state backend serves.  A node is   *)
(* named by its position in the node list, every other object by its       *)
(* position in the object list, so names are unique as the API server      *)
(* guarantees.                                                             *)
(***************************************************************************)
Versions == {"1.28", "1.29"}

Cond(t, s, m) == [type |-> t, status |-> s, message |-> m]

NodeConditions ==
    { <<Cond("MemoryPressure", "False", "sufficient memory"),
        Cond("Ready", "True", "kubelet ready")>>,
      <<Cond("MemoryPressure", "False", "sufficient memory"),
        Cond("Ready", "False", "kubelet stopped")>> }

NodeLists ==
    UNION { { [i \in 1..n |-> [name |-> i, version |-> f[i].version, conds |-> f[i].conds]] :
                f \in [1..n -> [version : Versions, conds : NodeConditions]] } :
            n \in 0..MaxNodes }

\* Two nodes of different versions, the second one not ready.
SkewedNodes ==
    <<[name |-> 1, version |-> "1.28",
       conds |-> <<Cond("MemoryPressure", "False", "sufficient memory"),
                   Cond("Ready", "True", "kubelet ready")>>],
      [name |-> 2, version |-> "1.29",
       conds |-> <<Cond("MemoryPressure", "False", "sufficient memory"),
                   Cond("Ready", "False", "kubelet stopped")>>]>>

Deployment(ns, name, dep) ==
    [kind |-> "deployment", ns |-> ns, name |-> name, deprecated |-> dep]

Pod(ns, name, label, phase, conds, sa, logs) ==
    [kind |-> "pod", ns |-> ns, name |-> name, label |-> label, phase |-> phase,
     message |-> "", conds |-> conds, sa |-> sa, logs |-> logs]

Service(ns, name, type, n) ==
    [kind |-> "service", ns |-> ns, name |-> name, type |-> type, lbIngress |-> n]

Ingress(ns, name, n) ==
    [kind |-> "ingress", ns |-> ns, name |-> name, lbIngress |-> n]

ServiceAccount(ns, name, annotations) ==
    [kind |-> "serviceaccount", ns |-> ns, name |-> name, annotations |-> annotations]

RoleArnKey == "eks.amazonaws.com/role-arn"

Catalogue ==
    << Deployment("default", "web", TRUE),
       Deployment("prod", "api", TRUE),
       Deployment("default", "db", FALSE),
       Pod("logging", "fluent-bit-1", "app=fluent-bit", "Pending", <<>>, "default", {}),
       Pod("amazon-cloudwatch", "cwagent-1", "app=cloudwatch-agent", "Running", <<>>, "default", {}),
       Pod("kube-system", "metrics-server-1", "k8s-app=metrics-server", "Running", <<>>, "default", {}),
       Pod("kube-system", "aws-node-1", "k8s-app=aws-node", "Running", <<>>, "default", {}),
       Pod("kube-system", "coredns-1", "k8s-app=kube-dns", "Pending", <<>>, "default", {}),
       Pod("default", "job-1", "", "Pending",
           <<Cond("PodScheduled", "False", "0/3 nodes are available")>>, "default", {}),
       Pod("default", "job-2", "", "Pending", <<>>, "default", {}),
       Pod("default", "app-1", "", "Running", <<>>, "app-sa", {"AccessDenied"}),
       Pod("default", "app-2", "", "Running", <<>>, "app-sa", {}),
       Service("default", "lb-1", "LoadBalancer", 0),
       Service("default", "lb-2", "LoadBalancer", 1),
       Ingress("default", "ing-1", 0),
       Ingress("default", "ing-2", 1),
       ServiceAccount("default", "app-sa", [k \in {RoleArnKey} |-> "arn:aws:iam::1:role/app"]),
       ServiceAccount("default", "plain-sa", EmptyMap) >>

Ids == 1..Len(Catalogue)

RECURSIVE SortedSeq(_)
SortedSeq(S) ==
    IF S = {} THEN <<>>
    ELSE LET m == CHOOSE x \in S : \A y \in S : x <= y
         IN <<m>> \o SortedSeq(S \ {m})

ObjectLists ==
    { [i \in 1..Len(SortedSeq(S)) |->
          [id |-> SortedSeq(S)[i], obj |-> Catalogue[SortedSeq(S)[i]]]] :
        S \in {T \in SUBSET Ids : Cardinality(T) <= MaxObjects} }

\* The clusters a run starts from: every node list with no other object, and
\* every object list beside the two skewed nodes.
Clusters ==
    { c \in [nodes : NodeLists, objects : ObjectLists] :
        c.objects = <<>> \/ c.nodes = SkewedNodes }

(***************************************************************************)
(* The snapshot, ClusterHealthStatus, and its sub-status structures.       *)
(***************************************************************************)
\* `status := &ClusterHealthStatus{NodeVersions: make(map[string][]string)}`
NewClusterHealthStatus ==
    [NodeVersions |-> EmptyMap,
     DeprecatedAPIs |-> <<>>,
     LoggingStatus |-> [FluentBitStatus |-> <<>>, CloudWatchStatus |-> <<>>,
                        MetricsServerStatus |-> <<>>],
     NetworkingStatus |-> [CNIStatus |-> <<>>, CoreDNSStatus |-> <<>>,
                           ExternalAccess |-> FALSE, DNSResolution |-> FALSE],
     LoadBalancerStatus |-> [PendingServices |-> <<>>, IngressStatus |-> <<>>],
     SchedulingStatus |-> [PendingPods |-> <<>>, ResourceIssues |-> <<>>],
     AuthStatus |-> [IRSAIssues |-> <<>>, RBACIssues |-> <<>>, IAMAuthIssues |-> <<>>],
     NodeStatus |-> [NotReady |-> <<>>, ASGIssues |-> <<>>, BootstrapIssues |-> <<>>]]

PodStatus(e) ==
    [Name |-> e.obj.name, Namespace |-> e.obj.ns, Status |-> e.obj.phase,
     Message |-> e.obj.message]

(***************************************************************************)
(* The cluster-state accessors.  A list call answers with the objects the  *)
(* selector matches, or with an error.  The outcome o of a call is "ok",   *)
(* "denied" (any API error that is not NotFound), "notfound" (NotFound     *)
(* with an empty list value), "notfound_nil" (NotFound with a nil list     *)
(* value, as the fake clientset answers) or "ctx" (the context is done).   *)
(***************************************************************************)
ListNodes(c) == c.nodes

ListKind(c, kind) == SelectSeq(c.objects, LAMBDA e : e.obj.kind = kind)

ListPodsByLabel(c, ns, label) ==
    SelectSeq(c.objects, LAMBDA e : /\ e.obj.kind = "pod"
                                    /\ (ns = "" \/ e.obj.ns = ns)
                                    /\ e.obj.label = label)

ListPodsByPhase(c, phase) ==
    SelectSeq(c.objects, LAMBDA e : e.obj.kind = "pod" /\ e.obj.phase = phase)

ListPodsByServiceAccount(c, ns, sa) ==
    SelectSeq(c.objects, LAMBDA e : /\ e.obj.kind = "pod"
                                    /\ e.obj.ns = ns
                                    /\ e.obj.sa = sa)

IsNotFound(o) == o \in {"notfound", "notfound_nil"}

(***************************************************************************)
(* The eight checks.  Each takes the snapshot st and the outcomes of its   *)
(* accessor calls and gives the snapshot it leaves and the error it        *)
(* returns ("" is nil, "panic" a nil dereference).                         *)
(***************************************************************************)
Result(st, err) == [st |-> st, err |-> err]

Card(m) == Cardinality(DOMAIN m)

\* The list of a version is replaced instead of appended to.
RECURSIVE GroupByVersionOverwrite(_, _)
GroupByVersionOverwrite(nodes, m) ==
    IF nodes = <<>> THEN m
    ELSE GroupByVersionOverwrite(Tail(nodes),
             MapPut(m, Head(nodes).version, <<Head(nodes).name>>))

RECURSIVE GroupByVersion(_, _)
GroupByVersion(nodes, m) ==
    IF nodes = <<>> THEN m
    ELSE LET node == Head(nodes)
             version == node.version
             old == IF version \in DOMAIN m THEN m[version] ELSE <<>>
         IN GroupByVersion(Tail(nodes), MapPut(m, version, Append(old, node.name)))

checkVersionMismatch(c, st, o) ==
    IF o # "ok" THEN Result(st, o)
    ELSE Result([st EXCEPT !.NodeVersions = GroupByVersion(ListNodes(c), @)], "")

DeprecatedFinding(e) == <<"Deployment", e.obj.ns, e.obj.name, "uses deprecated APIs">>

\* The deployments are looked at only once the node versions are known.
checkDeprecatedAPIsAfterVersions(c, st, o) ==
    IF o # "ok" THEN Result(st, o)
    ELSE LET hits == SelectSeq(ListKind(c, "deployment"),
                         LAMBDA e : e.obj.deprecated /\ Card(st.NodeVersions) > 0)
         IN Result([st EXCEPT !.DeprecatedAPIs =
                        @ \o [i \in 1..Len(hits) |-> DeprecatedFinding(hits[i])]], "")

checkDeprecatedAPIs(c, st, o) ==
    IF o # "ok" THEN Result(st, o)
    ELSE LET hits == SelectSeq(ListKind(c, "deployment"), LAMBDA e : e.obj.deprecated)
         IN Result([st EXCEPT !.DeprecatedAPIs =
                        @ \o [i \in 1..Len(hits) |-> DeprecatedFinding(hits[i])]], "")

PodStatuses(pods) == [i \in 1..Len(pods) |-> PodStatus(pods[i])]

\* One of the three list-and-append steps of checkLoggingStatus: an error
\* other than NotFound is returned, NotFound goes on to read the list value.
LoggingStep(r, field, pods, o) ==
    IF r.err # "" THEN r
    ELSE IF o # "ok" /\ ~IsNotFound(o) THEN Result(r.st, o)
    ELSE IF o = "notfound_nil" THEN Result(r.st, "panic")
    ELSE LET items == IF o = "ok" THEN pods ELSE <<>>
         IN Result([r.st EXCEPT !.LoggingStatus[field] = @ \o PodStatuses(items)], "")

checkLoggingStatus(c, st, o1, o2, o3) ==
    LoggingStep(
      LoggingStep(
        LoggingStep(Result(st, ""), "FluentBitStatus",
                    ListPodsByLabel(c, "", "app=fluent-bit"), o1),
        "CloudWatchStatus", ListPodsByLabel(c, "", "app=cloudwatch-agent"), o2),
      "MetricsServerStatus", ListPodsByLabel(c, "", "k8s-app=metrics-server"), o3)

NetworkingStep(r, field, pods, o) ==
    IF r.err # "" THEN r
    ELSE IF o # "ok" THEN Result(r.st, o)
    ELSE Result([r.st EXCEPT !.NetworkingStatus[field] = @ \o PodStatuses(pods)], "")

checkNetworkingStatus(c, st, o1, o2) ==
    NetworkingStep(
      NetworkingStep(Result(st, ""), "CNIStatus",
                     ListPodsByLabel(c, "kube-system", "k8s-app=aws-node"), o1),
      "CoreDNSStatus", ListPodsByLabel(c, "kube-system", "k8s-app=kube-dns"), o2)

IngressStatus(e) ==
    [Name |-> e.obj.name, Namespace |-> e.obj.ns,
     Status |-> IF e.obj.lbIngress > 0 THEN "Ready" ELSE "Pending", Problems |-> <<>>]

checkLoadBalancerStatus(c, st, o1, o2) ==
    IF o1 # "ok" THEN Result(st, o1)
    ELSE LET pending == SelectSeq(ListKind(c, "service"),
                            LAMBDA e : e.obj.type = "LoadBalancer" /\ e.obj.lbIngress = 0)
             st1 == [st EXCEPT !.LoadBalancerStatus.PendingServices =
                        @ \o [i \in 1..Len(pending) |-> <<pending[i].obj.ns, pending[i].obj.name>>]]
             ings == ListKind(c, "ingress")
         IN IF o2 # "ok" THEN Result(st1, o2)
            ELSE Result([st1 EXCEPT !.LoadBalancerStatus.IngressStatus =
                            @ \o [i \in 1..Len(ings) |-> IngressStatus(ings[i])]], "")

\* The message of the first PodScheduled=False condition, "" when there is none.
RECURSIVE SchedulingReason(_)
SchedulingReason(conds) ==
    IF conds = <<>> THEN ""
    ELSE IF Head(conds).type = "PodScheduled" /\ Head(conds).status = "False"
         THEN Head(conds).message
         ELSE SchedulingReason(Tail(conds))

PodSchedulingIssue(e) ==
    [Pod |-> e.obj.name, Namespace |-> e.obj.ns, Reason |-> SchedulingReason(e.obj.conds)]

checkSchedulingStatus(c, st, o) ==
    IF o # "ok" THEN Result(st, o)
    ELSE LET pods == ListPodsByPhase(c, "Pending")
         IN Result([st EXCEPT !.SchedulingStatus.PendingPods =
                        @ \o [i \in 1..Len(pods) |-> PodSchedulingIssue(pods[i])]], "")

Contains(logs, marker) == marker \in logs

IRSAFinding(pod, account) ==
    <<"Pod", pod.obj.ns, pod.obj.name, "using SA", account.obj.name, "with role",
      account.obj.annotations[RoleArnKey], "has AWS access issues">>

\* The findings one service account contributes: sub gives the outcome of
\* listing its pods (under the account's id) and of fetching the logs of
\* each pod (under the pod's id); a failed call is skipped with continue.
IRSAIssuesOfAccount(c, account, sub) ==
    IF RoleArnKey \notin DOMAIN account.obj.annotations THEN <<>>
    ELSE IF sub[account.id] # "ok" THEN <<>>
    ELSE LET pods == ListPodsByServiceAccount(c, account.obj.ns, account.obj.name)
             hits == SelectSeq(pods, LAMBDA p :
                        /\ p.obj.phase = "Running"
                        /\ sub[p.id] = "ok"
                        /\ (Contains(p.obj.logs, "AccessDenied")
                              \/ Contains(p.obj.logs, "UnauthorizedOperation")))
         IN [i \in 1..Len(hits) |-> IRSAFinding(hits[i], account)]

\* A service account without a role annotation is recorded as an RBAC issue.
checkAuthStatusWithRBAC(c, st, o, sub) ==
    IF o # "ok" THEN Result(st, o)
    ELSE LET sa == ListKind(c, "serviceaccount")
             plain == SelectSeq(sa, LAMBDA e : RoleArnKey \notin DOMAIN e.obj.annotations)
         IN Result([st EXCEPT !.AuthStatus.IRSAIssues =
                        @ \o Concat([i \in 1..Len(sa) |-> IRSAIssuesOfAccount(c, sa[i], sub)]),
                              !.AuthStatus.RBACIssues =
                        @ \o [i \in 1..Len(plain) |-> <<plain[i].obj.ns, plain[i].obj.name>>]],
                   "")

checkAuthStatus(c, st, o, sub) ==
    IF o # "ok" THEN Result(st, o)
    ELSE LET sa == ListKind(c, "serviceaccount")
         IN Result([st EXCEPT !.AuthStatus.IRSAIssues =
                        @ \o Concat([i \in 1..Len(sa) |-> IRSAIssuesOfAccount(c, sa[i], sub)])],
                   "")

\* isReady of checkNodeStatus: the status of the first Ready condition.
RECURSIVE IsReady(_)
IsReady(conds) ==
    IF conds = <<>> THEN FALSE
    ELSE IF Head(conds).type = "Ready" THEN Head(conds).status = "True"
    ELSE IsReady(Tail(conds))

BootstrapIssuesOfNode(node) ==
    LET falseConds == SelectSeq(node.conds, LAMBDA cd : cd.status = "False")
    IN [i \in 1..Len(falseConds) |->
           <<"Node", node.name, falseConds[i].type, falseConds[i].message>>]

\* The conditions of every node are looked at, ready or not.
RECURSIVE NodeStatusLoopAllNodes(_, _)
NodeStatusLoopAllNodes(nodes, ns) ==
    IF nodes = <<>> THEN ns
    ELSE LET node == Head(nodes)
         IN NodeStatusLoopAllNodes(Tail(nodes),
                [ns EXCEPT !.NotReady = IF IsReady(node.conds) THEN @
                                        ELSE Append(@, node.name),
                           !.BootstrapIssues = @ \o BootstrapIssuesOfNode(node)])

RECURSIVE NodeStatusLoop(_, _)
NodeStatusLoop(nodes, ns) ==
    IF nodes = <<>> THEN ns
    ELSE LET node == Head(nodes)
         IN IF IsReady(node.conds) THEN NodeStatusLoop(Tail(nodes), ns)
            ELSE NodeStatusLoop(Tail(nodes),
                    [ns EXCEPT !.NotReady = Append(@, node.name),
                               !.BootstrapIssues = @ \o BootstrapIssuesOfNode(node)])

\* The check writes into a fresh snapshot instead of the one handed to it.
checkNodeStatusFreshSnapshot(c, st, o) ==
    IF o # "ok" THEN Result(st, o)
    ELSE Result([NewClusterHealthStatus EXCEPT
                     !.NodeStatus = NodeStatusLoop(ListNodes(c), @)], "")

checkNodeStatus(c, st, o) ==
    IF o # "ok" THEN Result(st, o)
    ELSE Result([st EXCEPT !.NodeStatus = NodeStatusLoop(ListNodes(c), @)], "")

(***************************************************************************)
(* The summary of the cluster-health command.                              *)
(***************************************************************************)
Recommendations(snap) ==
    Concat(<< IF Card(snap.NodeVersions) > 1
                 THEN <<"1. Upgrade nodes to match control plane version">> ELSE <<>>,
              IF Len(snap.DeprecatedAPIs) > 0
                 THEN <<"2. Update applications using deprecated APIs">> ELSE <<>>,
              IF Len(snap.AuthStatus.IRSAIssues) > 0
                 THEN <<"3. Fix IRSA configuration issues">> ELSE <<>>,
              IF Len(snap.AuthStatus.RBACIssues) > 0
                 THEN <<"4. Review and fix RBAC issues">> ELSE <<>>,
              IF Len(snap.NodeStatus.NotReady) > 0
                 THEN <<"5. Investigate nodes in NotReady state">> ELSE <<>>,
              IF Len(snap.SchedulingStatus.PendingPods) > 0
                 THEN <<"6. Address pod scheduling issues">> ELSE <<>>,
              IF Len(snap.LoadBalancerStatus.PendingServices) > 0
                 THEN <<"7. Check LoadBalancer provisioning issues">> ELSE <<>> >>)

CriticalIssues(snap) == IF Card(snap.NodeVersions) > 1 THEN 1 ELSE 0

\* The version mismatch is added to the total as well.
TotalIssuesWithSkew(snap) ==
    CriticalIssues(snap)
      + Len(snap.DeprecatedAPIs)
      + Len(snap.AuthStatus.IRSAIssues)
      + Len(snap.AuthStatus.RBACIssues)
      + Len(snap.NodeStatus.NotReady)
      + Len(snap.SchedulingStatus.PendingPods)
      + Len(snap.LoadBalancerStatus.PendingServices)

TotalIssues(snap) ==
    Len(snap.DeprecatedAPIs)
      + Len(snap.AuthStatus.IRSAIssues)
      + Len(snap.AuthStatus.RBACIssues)
      + Len(snap.NodeStatus.NotReady)
      + Len(snap.SchedulingStatus.PendingPods)
      + Len(snap.LoadBalancerStatus.PendingServices)

\* What printHealthSummary prints: the two counters, whether the critical
\* warning and the total warning are shown, the recommendations, the verdict.
printHealthSummary(snap) ==
    LET criticalIssues == CriticalIssues(snap)
        totalIssues == TotalIssues(snap)
    IN [criticalIssues |-> criticalIssues,
        totalIssues |-> totalIssues,
        criticalWarning |-> criticalIssues > 0,
        recommendations |-> IF totalIssues > 0 THEN Recommendations(snap) ELSE <<>>,
        healthy |-> ~(totalIssues > 0)]

\* A mismatch is shown as soon as one version is present.
printControlPlaneStatusAnyVersion(snap) ==
    IF Card(snap.NodeVersions) > 0 THEN "mismatch" ELSE "same"

\* What printControlPlaneStatus shows of the versions: the mismatch warning
\* or the all-the-same message.
printControlPlaneStatus(snap) ==
    IF Card(snap.NodeVersions) > 1 THEN "mismatch" ELSE "same"

\* The version part, the first, of printFullHealthStatus of the health command.
printFullHealthStatus(snap) ==
    IF Card(snap.NodeVersions) > 1 THEN "mismatch" ELSE "same"

SiteNames ==
    {"nodes.version", "deployments", "pods.fluent-bit", "pods.cloudwatch-agent",
     "pods.metrics-server", "pods.aws-node", "pods.kube-dns", "services", "ingresses",
     "pods.pending", "serviceaccounts", "nodes.status"}

NilListSites == {"pods.fluent-bit", "pods.cloudwatch-agent", "pods.metrics-server"}

NoAcc == [site |-> [s \in SiteNames |-> "unset"], sub |-> [i \in Ids |-> "unset"]]

NoOutput ==
    [command |-> "", exclude |-> <<>>, namespace |-> "", sections |-> <<>>,
     versions |-> <<>>, summary |-> <<>>, exit |-> ""]

NoProbe == [op |-> "", pod |-> <<>>, seq |-> 0, events |-> 0, index |-> 0, result |-> ""]

\* The outcomes a call can have now, given what was decided before.
Decide(recorded, fresh) ==
    IF ctxDone THEN {"ctx"}
    ELSE IF recorded # "unset" THEN {recorded}
    ELSE fresh

Choices(site) ==
    Decide(acc.site[site],
           {"ok", "denied"}
             \cup (IF site \in NilListSites THEN {"notfound", "notfound_nil"} ELSE {}))

\* A call that is not reached has the outcome "unset".
After(before, site) ==
    IF before = "ok" \/ (IsNotFound(before) /\ before # "notfound_nil")
    THEN Choices(site) ELSE {"unset"}

Keep(old, o) == IF o \in {"ctx", "unset"} THEN old ELSE o

Record(a, sites, outcomes) ==
    [a EXCEPT !.site = [s \in SiteNames |->
        IF \E i \in 1..Len(sites) : sites[i] = s
        THEN Keep(@[s], outcomes[CHOOSE i \in 1..Len(sites) : sites[i] = s])
        ELSE @[s]]]

\* A request: the verb, the resource and the name of the object (0 when the
\* request names none).
Request(verb, resource, name) == [verb |-> verb, resource |-> resource, name |-> name]

Sent(verb, resource) == requests \cup {Request(verb, resource, 0)}

Returned(st, err) == [status |-> st, err |-> err]

NoError == [check |-> "", cause |-> ""]

\* The last returned (status, err) pair.
Last == results[Len(results)]

(***************************************************************************)
(* CheckClusterHealth: a fresh snapshot, then the eight checks in order;   *)
(* the first error is returned with a nil snapshot.                        *)
(***************************************************************************)
\* An error of a check is dropped and the next check runs.
PropagateDegrading(check, next, r) ==
    /\ status' = r.st
    /\ IF r.err = "panic"
       THEN /\ pc' = "panic"
            /\ UNCHANGED results
       ELSE IF next = "return"
       THEN /\ pc' = "returned"
            /\ results' = Append(results, Returned(<<r.st>>, NoError))
       ELSE /\ pc' = next
            /\ UNCHANGED results

\* `if err := k.checkX(...); err != nil { return nil, err }`, and the
\* `return status, nil` that follows the last check.
Propagate(check, next, r) ==
    /\ status' = r.st
    /\ IF r.err = "panic"
       THEN /\ pc' = "panic"
            /\ UNCHANGED results
       ELSE IF r.err # ""
       THEN /\ pc' = "returned"
            /\ results' = Append(results, Returned(<<>>, [check |-> check, cause |-> r.err]))
       ELSE IF next = "return"
       THEN /\ pc' = "returned"
            /\ results' = Append(results, Returned(<<r.st>>, NoError))
       ELSE /\ pc' = next
            /\ UNCHANGED results

\* The snapshot of the call before is kept instead of a fresh one.
CheckClusterHealthReusingStatus ==
    /\ pc \in {"start", "returned"}
    /\ Len(results) < MaxCalls
    /\ pc' = "checkVersionMismatch"
    /\ UNCHANGED <<cluster, acc, ctxDone, status, results, out, requests, probeVars>>

CheckClusterHealth ==
    /\ pc \in {"start", "returned"}
    /\ Len(results) < MaxCalls
    /\ status' = NewClusterHealthStatus
    /\ pc' = "checkVersionMismatch"
    /\ UNCHANGED <<cluster, acc, ctxDone, results, out, requests, probeVars>>

CheckVersionMismatch ==
    /\ pc = "checkVersionMismatch"
    /\ \E o \in Choices("nodes.version") :
         /\ Propagate("versions", "checkDeprecatedAPIs", checkVersionMismatch(cluster, status, o))
         /\ acc' = Record(acc, <<"nodes.version">>, <<o>>)
    /\ requests' = Sent("list", "nodes")
    /\ UNCHANGED <<cluster, ctxDone, out, probeVars>>

CheckDeprecatedAPIs ==
    /\ pc = "checkDeprecatedAPIs"
    /\ \E o \in Choices("deployments") :
         /\ Propagate("deprecated-apis", "checkLoggingStatus", checkDeprecatedAPIs(cluster, status, o))
         /\ acc' = Record(acc, <<"deployments">>, <<o>>)
    /\ requests' = Sent("list", "deployments")
    /\ UNCHANGED <<cluster, ctxDone, out, probeVars>>

CheckLoggingStatus ==
    /\ pc = "checkLoggingStatus"
    /\ \E o1 \in Choices("pods.fluent-bit") :
       \E o2 \in After(o1, "pods.cloudwatch-agent") :
       \E o3 \in After(o2, "pods.metrics-server") :
         /\ Propagate("logging", "checkNetworkingStatus",
                      checkLoggingStatus(cluster, status, o1, o2, o3))
         /\ acc' = Record(acc, <<"pods.fluent-bit", "pods.cloudwatch-agent",
                                 "pods.metrics-server">>, <<o1, o2, o3>>)
    /\ requests' = Sent("list", "pods")
    /\ UNCHANGED <<cluster, ctxDone, out, probeVars>>

CheckNetworkingStatus ==
    /\ pc = "checkNetworkingStatus"
    /\ \E o1 \in Choices("pods.aws-node") :
       \E o2 \in IF o1 = "ok" THEN Choices("pods.kube-dns") ELSE {"unset"} :
         /\ Propagate("networking", "checkLoadBalancerStatus",
                      checkNetworkingStatus(cluster, status, o1, o2))
         /\ acc' = Record(acc, <<"pods.aws-node", "pods.kube-dns">>, <<o1, o2>>)
    /\ requests' = Sent("list", "pods")
    /\ UNCHANGED <<cluster, ctxDone, out, probeVars>>

CheckLoadBalancerStatus ==
    /\ pc = "checkLoadBalancerStatus"
    /\ \E o1 \in Choices("services") :
       \E o2 \in IF o1 = "ok" THEN Choices("ingresses") ELSE {"unset"} :
         /\ Propagate("load-balancers", "checkSchedulingStatus",
                      checkLoadBalancerStatus(cluster, status, o1, o2))
         /\ acc' = Record(acc, <<"services", "ingresses">>, <<o1, o2>>)
         /\ requests' = IF o1 = "ok" THEN Sent("list", "services") \cup Sent("list", "ingresses")
                        ELSE Sent("list", "services")
    /\ UNCHANGED <<cluster, ctxDone, out, probeVars>>

CheckSchedulingStatus ==
    /\ pc = "checkSchedulingStatus"
    /\ \E o \in Choices("pods.pending") :
         /\ Propagate("scheduling", "checkAuthStatus", checkSchedulingStatus(cluster, status, o))
         /\ acc' = Record(acc, <<"pods.pending">>, <<o>>)
    /\ requests' = Sent("list", "pods")
    /\ UNCHANGED <<cluster, ctxDone, out, probeVars>>

\* The service accounts whose pods checkAuthStatus lists, and the pods whose
\* logs it fetches once the listings answered as fa says.
Entries(c) == {c.objects[i] : i \in 1..Len(c.objects)}

AnnotatedAccounts(c) ==
    {e.id : e \in {x \in Entries(c) :
                     /\ x.obj.kind = "serviceaccount"
                     /\ RoleArnKey \in DOMAIN x.obj.annotations}}

LogPods(c, fa) ==
    {p.id : p \in {e \in Entries(c) :
                     /\ e.obj.kind = "pod"
                     /\ e.obj.phase = "Running"
                     /\ \E a \in {x \in Entries(c) : x.id \in DOMAIN fa} :
                          /\ fa[a.id] = "ok"
                          /\ a.obj.ns = e.obj.ns
                          /\ a.obj.name = e.obj.sa}}

SubOutcomes(S) ==
    {f \in [S -> {"ok", "denied", "ctx"}] :
        \A i \in S : f[i] \in Decide(acc.sub[i], {"ok", "denied"})}

Merge(fa, fl) ==
    [i \in Ids |-> IF i \in DOMAIN fa THEN fa[i]
                   ELSE IF i \in DOMAIN fl THEN fl[i] ELSE "unset"]

CheckAuthStatus ==
    /\ pc = "checkAuthStatus"
    /\ \E o \in Choices("serviceaccounts") :
       \E fa \in SubOutcomes(IF o = "ok" THEN AnnotatedAccounts(cluster) ELSE {}) :
       \E fl \in SubOutcomes(LogPods(cluster, fa)) :
         /\ Propagate("auth", "checkNodeStatus",
                      checkAuthStatus(cluster, status, o, Merge(fa, fl)))
         /\ acc' = [Record(acc, <<"serviceaccounts">>, <<o>>) EXCEPT
                       !.sub = [i \in Ids |-> Keep(@[i], Merge(fa, fl)[i])]]
         /\ requests' = Sent("list", "serviceaccounts")
                          \cup (IF DOMAIN fa # {} THEN {Request("list", "pods", 0)} ELSE {})
                          \cup (IF DOMAIN fl # {} THEN {Request("log", "pods", 0)} ELSE {})
    /\ UNCHANGED <<cluster, ctxDone, out, probeVars>>

CheckNodeStatus ==
    /\ pc = "checkNodeStatus"
    /\ \E o \in Choices("nodes.status") :
         /\ Propagate("nodes", "return", checkNodeStatus(cluster, status, o))
         /\ acc' = Record(acc, <<"nodes.status">>, <<o>>)
    /\ requests' = Sent("list", "nodes")
    /\ UNCHANGED <<cluster, ctxDone, out, probeVars>>

CheckPositions ==
    {"checkVersionMismatch", "checkDeprecatedAPIs", "checkLoggingStatus",
     "checkNetworkingStatus", "checkLoadBalancerStatus", "checkSchedulingStatus",
     "checkAuthStatus", "checkNodeStatus"}

\* The deadline of context.WithTimeout passes while the checks of the
\* command's call run (the deadline is observed between two checks).
Timeout ==
    /\ pc \in CheckPositions
    /\ results = <<>>
    /\ ~ctxDone
    /\ ctxDone' = TRUE
    /\ UNCHANGED <<cluster, acc, pc, status, results, out, requests, probeVars>>

(***************************************************************************)
(* The cluster-health command after CheckClusterHealth has returned.       *)
(***************************************************************************)
Sections ==
    <<"control-plane", "core", "nodes", "workloads", "networking", "storage",
      "security", "logging", "resources">>

ExcludeChoices == {<<>>, <<"Networking">>, <<"nodes", "LOGGING">>}

\* The values of --namespace: all namespaces, or one.
NamespaceChoices == {"", "default"}

\* strings.EqualFold on the words in use: equality after case folding.
Fold(str) ==
    CASE str = "Networking" -> "networking"
      [] str = "LOGGING" -> "logging"
      [] OTHER -> str

EqualFold(s, t) == Fold(s) = Fold(t)

contains(slice, str) == \E i \in 1..Len(slice) : EqualFold(slice[i], str)

\* The one call of CheckClusterHealth that a command makes has returned (the
\* calls after the first are those of another caller of the client).
CommandReturned == pc = "returned" /\ Len(results) = 1

\* `if err != nil { return fmt.Errorf("failed to check cluster health: %w", err) }`
ReturnError ==
    /\ CommandReturned
    /\ Last.err # NoError
    /\ out' = [out EXCEPT !.exit = "error"]
    /\ pc' = "done"
    /\ UNCHANGED <<cluster, acc, ctxDone, status, results, requests, probeVars>>

\* The fields of the snapshot that the sections left to print show.
ShownSnapshot(snap, exclude) ==
    [snap EXCEPT
        !.NodeStatus = IF contains(exclude, "nodes")
                       THEN NewClusterHealthStatus.NodeStatus ELSE @,
        !.NetworkingStatus = IF contains(exclude, "networking")
                             THEN NewClusterHealthStatus.NetworkingStatus ELSE @]

\* The summary is computed over the sections that were printed.
PrintReportOfShownSections ==
    /\ CommandReturned
    /\ Last.err = NoError
    /\ \E exclude \in ExcludeChoices, namespace \in NamespaceChoices :
         out' = [command |-> "cluster-health",
                 exclude |-> exclude,
                 namespace |-> namespace,
                 sections |-> SelectSeq(Sections, LAMBDA sec : ~contains(exclude, sec)),
                 versions |-> IF contains(exclude, "control-plane") THEN <<>>
                              ELSE <<printControlPlaneStatus(Last.status[1])>>,
                 summary |-> <<printHealthSummary(ShownSnapshot(Last.status[1], exclude))>>,
                 exit |-> "ok"]
    /\ pc' = "done"
    /\ UNCHANGED <<cluster, acc, ctxDone, status, results, requests, probeVars>>

\* The sections that are not excluded (the workloads section with the
\* namespace of the flag), then the summary.
PrintReport ==
    /\ CommandReturned
    /\ Last.err = NoError
    /\ \E exclude \in ExcludeChoices, namespace \in NamespaceChoices :
         out' = [command |-> "cluster-health",
                 exclude |-> exclude,
                 namespace |-> namespace,
                 sections |-> SelectSeq(Sections, LAMBDA sec : ~contains(exclude, sec)),
                 versions |-> IF contains(exclude, "control-plane") THEN <<>>
                              ELSE <<printControlPlaneStatus(Last.status[1])>>,
                 summary |-> <<printHealthSummary(Last.status[1])>>,
                 exit |-> "ok"]
    /\ pc' = "done"
    /\ UNCHANGED <<cluster, acc, ctxDone, status, results, requests, probeVars>>

\* The health command prints the full status of the snapshot (no component
\* was selected) and no summary.
PrintFullHealthStatus ==
    /\ CommandReturned
    /\ Last.err = NoError
    /\ out' = [out EXCEPT !.command = "health",
                          !.versions = <<printFullHealthStatus(Last.status[1])>>,
                          !.exit = "ok"]
    /\ pc' = "done"
    /\ UNCHANGED <<cluster, acc, ctxDone, status, results, requests, probeVars>>

Init ==
    /\ cluster \in Clusters
    /\ acc = NoAcc
    /\ ctxDone = FALSE
    /\ pc = "start"
    /\ status = NewClusterHealthStatus
    /\ results = <<>>
    /\ out = NoOutput
    /\ requests = {}
    /\ testPods = {}
    /\ probe = NoProbe

Next ==
    \/ CheckClusterHealth
    \/ CheckVersionMismatch
    \/ CheckDeprecatedAPIs
    \/ CheckLoggingStatus
    \/ CheckNetworkingStatus
    \/ CheckLoadBalancerStatus
    \/ CheckSchedulingStatus
    \/ CheckAuthStatus
    \/ CheckNodeStatus
    \/ Timeout
    \/ ReturnError
    \/ PrintReport
    \/ PrintFullHealthStatus

Spec == Init /\ [][Next]_vars

(***************************************************************************)
(* The networking diagnostics (debug networking): the pod and its network  *)
(* policies are read, then TestPodDNS, TestPodConnectivity and CheckMTU    *)
(* each run a disposable pod.  probe.pod holds the pod of the running      *)
(* operation, probe.seq counts the pods created (GenerateName gives each   *)
(* its own name), probe.result tells how the last operation ended.         *)
(***************************************************************************)
Outcomes == IF ctxDone THEN {"ctx"} ELSE {"ok", "denied"}

\* pods.Create: the pod exists in the cluster when the call succeeds.
CreatePod(op, o, onOk, onErr) ==
    IF o = "ok"
    THEN /\ testPods' = testPods \cup {probe.seq + 1}
         /\ requests' = requests \cup {Request("create", "pods", probe.seq + 1)}
         /\ probe' = [probe EXCEPT !.op = op, !.pod = <<probe.seq + 1>>, !.seq = @ + 1,
                                   !.events = 0, !.result = ""]
         /\ pc' = onOk
    ELSE /\ requests' = requests \cup {Request("create", "pods", 0)}
         /\ probe' = [probe EXCEPT !.op = op, !.pod = <<>>, !.result = "create-error"]
         /\ pc' = onErr
         /\ UNCHANGED testPods

\* pods.Delete(ctx, pod.Name): the call is made with the context of the
\* operation and its error is dropped; the pod is gone when it succeeds.
DeletePod(name) ==
    /\ requests' = requests \cup {Request("delete", "pods", name)}
    /\ \E o \in Outcomes : testPods' = IF o = "ok" THEN testPods \ {name} ELSE testPods

\* A return after `defer ...Delete(...)`: the deferred delete runs.
ReturnWithCleanup(result, next) ==
    /\ DeletePod(probe.pod[1])
    /\ probe' = [probe EXCEPT !.pod = <<>>, !.result = result]
    /\ pc' = next

\* A return that leaves the pod behind.
ReturnWithoutCleanup(result, next) ==
    /\ probe' = [probe EXCEPT !.pod = <<>>, !.result = result]
    /\ pc' = next
    /\ UNCHANGED <<testPods, requests>>

\* pods.Watch: an error returns, with the deferred delete.
OpenWatch(onOk, next) ==
    \E o \in Outcomes :
        IF o = "ok"
        THEN /\ requests' = requests \cup {Request("watch", "pods", probe.pod[1])}
             /\ pc' = onOk
             /\ UNCHANGED <<testPods, probe>>
        ELSE ReturnWithCleanup("watch-error", next)

\* `for event := range watch.ResultChan()`: a pod event of a phase that is
\* not terminal goes round the loop, Succeeded and Failed return, an event
\* that carries no pod panics in the type assertion, and the closed channel
\* (the only thing a done context leaves) returns "watch ended".
WatchEvents(next) ==
    \E ev \in IF ctxDone THEN {"closed"}
              ELSE {"Pending", "Running", "Succeeded", "Failed", "error-event", "closed"} :
        IF ev \in {"Pending", "Running"}
        THEN /\ probe.events < MaxEvents
             /\ probe' = [probe EXCEPT !.events = @ + 1]
             /\ UNCHANGED <<pc, testPods, requests>>
        ELSE IF ev = "Succeeded" THEN ReturnWithCleanup("succeeded", next)
        ELSE IF ev = "Failed" THEN ReturnWithCleanup("failed", next)
        ELSE IF ev = "error-event" THEN ReturnWithCleanup("panic", "panic")
        ELSE ReturnWithCleanup("watch-closed", next)

GetPod ==
    /\ pc = "net.getPod"
    /\ requests' = Sent("get", "pods")
    /\ \E o \in Outcomes :
         IF o = "ok"
         THEN pc' = "net.policies" /\ UNCHANGED out
         ELSE pc' = "done" /\ out' = [out EXCEPT !.exit = "error"]
    /\ UNCHANGED <<cluster, acc, ctxDone, status, results, probeVars>>

GetNetworkPolicies ==
    /\ pc = "net.policies"
    /\ requests' = Sent("list", "networkpolicies")
    /\ \E answer \in {"failed", "none", "found"} :
         out' = [out EXCEPT !.sections = Append(@, <<"network-policies", answer>>)]
    /\ pc' = "dns.create"
    /\ UNCHANGED <<cluster, acc, ctxDone, status, results, probeVars>>

TestPodDNS_Create ==
    /\ pc = "dns.create"
    /\ \E o \in Outcomes : CreatePod("TestPodDNS", o, "dns.watch", "net.getNode")
    /\ UNCHANGED <<cluster, acc, ctxDone, status, results, out>>

\* The watch error returns without the delete.
TestPodDNS_WatchLeaks ==
    /\ pc = "dns.watch"
    /\ \E o \in Outcomes :
         IF o = "ok"
         THEN /\ requests' = requests \cup {Request("watch", "pods", probe.pod[1])}
              /\ pc' = "dns.events"
              /\ UNCHANGED <<testPods, probe>>
         ELSE ReturnWithoutCleanup("watch-error", "net.getNode")
    /\ UNCHANGED <<cluster, acc, ctxDone, status, results, out>>

TestPodDNS_Watch ==
    /\ pc = "dns.watch"
    /\ OpenWatch("dns.events", "net.getNode")
    /\ UNCHANGED <<cluster, acc, ctxDone, status, results, out>>

TestPodDNS_Events ==
    /\ pc = "dns.events"
    /\ WatchEvents("net.getNode")
    /\ UNCHANGED <<cluster, acc, ctxDone, status, results, out>>

GetNode ==
    /\ pc = "net.getNode"
    /\ requests' = Sent("get", "nodes")
    /\ out' = [out EXCEPT !.sections = Append(@, <<"dns", probe.result>>)]
    /\ pc' = "conn.getTarget"
    /\ UNCHANGED <<cluster, acc, ctxDone, status, results, probeVars>>

\* The target pod is read first; an error, or a pod with no IP, returns
\* before any pod is created.
TestPodConnectivity_GetTarget ==
    /\ pc = "conn.getTarget"
    /\ requests' = Sent("get", "pods")
    /\ \E o \in Outcomes \cup {"no-ip"} :
         IF o = "ok"
         THEN pc' = "conn.create" /\ UNCHANGED probe
         ELSE /\ pc' = "net.recommend"
              /\ probe' = [probe EXCEPT !.op = "TestPodConnectivity", !.pod = <<>>,
                                        !.result = "target-error"]
    /\ UNCHANGED <<cluster, acc, ctxDone, status, results, out, testPods>>

TestPodConnectivity_Create ==
    /\ pc = "conn.create"
    /\ \E o \in Outcomes : CreatePod("TestPodConnectivity", o, "conn.watch", "net.recommend")
    /\ UNCHANGED <<cluster, acc, ctxDone, status, results, out>>

TestPodConnectivity_Watch ==
    /\ pc = "conn.watch"
    /\ OpenWatch("conn.events", "net.recommend")
    /\ UNCHANGED <<cluster, acc, ctxDone, status, results, out>>

TestPodConnectivity_Events ==
    /\ pc = "conn.events"
    /\ WatchEvents("net.recommend")
    /\ UNCHANGED <<cluster, acc, ctxDone, status, results, out>>

\* The recommendations start; CheckMTU lists the nodes.
CheckMTU_GetNodes ==
    /\ pc = "net.recommend"
    /\ requests' = Sent("list", "nodes")
    /\ out' = [out EXCEPT !.sections = Append(@, <<"connectivity", probe.result>>)]
    /\ \E o \in Outcomes :
         IF o = "ok" /\ Len(cluster.nodes) > 0
         THEN pc' = "mtu.create" /\ probe' = [probe EXCEPT !.op = "CheckMTU", !.index = 1]
         ELSE pc' = "net.exit" /\ probe' = [probe EXCEPT !.op = "CheckMTU", !.index = 0,
                                                         !.result = IF o = "ok" THEN "" ELSE "nodes-error"]
    /\ UNCHANGED <<cluster, acc, ctxDone, status, results, testPods>>

\* The next node of the loop, or the end of the loop.
NextNode == IF probe.index < Len(cluster.nodes) THEN "mtu.create" ELSE "net.exit"

CheckMTU_Create ==
    /\ pc = "mtu.create"
    /\ \E o \in Outcomes :
         IF o = "ok"
         THEN CreatePod("CheckMTU", o, "mtu.logs", "mtu.logs")
         ELSE /\ requests' = requests \cup {Request("create", "pods", 0)}
              /\ probe' = [probe EXCEPT !.pod = <<>>, !.result = "create-error",
                                        !.index = IF NextNode = "mtu.create" THEN @ + 1 ELSE @]
              /\ pc' = NextNode
              /\ UNCHANGED testPods
    /\ UNCHANGED <<cluster, acc, ctxDone, status, results, out>>

\* GetPodLogs, then the delete, whatever the logs call returned.
CheckMTU_LogsAndDelete ==
    /\ pc = "mtu.logs"
    /\ \E o \in Outcomes :
         /\ \E d \in Outcomes :
              testPods' = IF d = "ok" THEN testPods \ {probe.pod[1]} ELSE testPods
         /\ requests' = requests \cup {Request("log", "pods", probe.pod[1]),
                                       Request("delete", "pods", probe.pod[1])}
         /\ probe' = [probe EXCEPT !.pod = <<>>,
                                   !.result = IF o = "ok" THEN "mtu-read" ELSE "logs-error",
                                   !.index = IF NextNode = "mtu.create" THEN @ + 1 ELSE @]
    /\ pc' = NextNode
    /\ UNCHANGED <<cluster, acc, ctxDone, status, results, out>>

Exit ==
    /\ pc = "net.exit"
    /\ out' = [out EXCEPT !.exit = "ok"]
    /\ pc' = "done"
    /\ UNCHANGED <<cluster, acc, ctxDone, status, results, requests, probeVars>>

ProbePositions ==
    {"dns.create", "dns.watch", "dns.events", "conn.getTarget", "conn.create",
     "conn.watch", "conn.events", "mtu.create", "mtu.logs"}

\* The context the operations were called with is cancelled.
Cancel ==
    /\ pc \in ProbePositions
    /\ ~ctxDone
    /\ ctxDone' = TRUE
    /\ UNCHANGED <<cluster, acc, pc, status, results, out, requests, probeVars>>

\* The diagnostics read nothing of a node but that it is there.
ProbeClusters ==
    {c \in Clusters : /\ c.objects = <<>>
                      /\ \A i \in 1..Len(c.nodes) :
                           /\ c.nodes[i].version = SkewedNodes[1].version
                           /\ c.nodes[i].conds = SkewedNodes[1].conds}

InitProbe ==
    /\ cluster \in ProbeClusters
    /\ acc = NoAcc
    /\ ctxDone = FALSE
    /\ pc = "net.getPod"
    /\ status = NewClusterHealthStatus
    /\ results = <<>>
    /\ out = NoOutput
    /\ requests = {}
    /\ testPods = {}
    /\ probe = NoProbe

NextProbe ==
    \/ GetPod
    \/ GetNetworkPolicies
    \/ TestPodDNS_Create
    \/ TestPodDNS_Watch
    \/ TestPodDNS_Events
    \/ GetNode
    \/ TestPodConnectivity_GetTarget
    \/ TestPodConnectivity_Create
    \/ TestPodConnectivity_Watch
    \/ TestPodConnectivity_Events
    \/ CheckMTU_GetNodes
    \/ CheckMTU_Create
    \/ CheckMTU_LogsAndDelete
    \/ Exit
    \/ Cancel

SpecProbe == InitProbe /\ [][NextProbe]_vars

\* The steps the command takes by itself: every call to the backend answers
\* (with a result or an error), and the watch channel of a done context is
\* closed.  An event on the watch of a live context comes only when the
\* cluster sends one, and the context is cancelled only from outside.
ProbeProgress ==
    \/ GetPod
    \/ GetNetworkPolicies
    \/ TestPodDNS_Create
    \/ TestPodDNS_Watch
    \/ (ctxDone /\ TestPodDNS_Events)
    \/ GetNode
    \/ TestPodConnectivity_GetTarget
    \/ TestPodConnectivity_Create
    \/ TestPodConnectivity_Watch
    \/ (ctxDone /\ TestPodConnectivity_Events)
    \/ CheckMTU_GetNodes
    \/ CheckMTU_Create
    \/ CheckMTU_LogsAndDelete
    \/ Exit

SpecProbeFair == InitProbe /\ [][NextProbe]_vars /\ WF_vars(ProbeProgress)

(***************************************************************************)
(* Calls of the cluster client on its own: GetClusterResources and         *)
(* ValidatePodWebIdentityToken.  The cluster here holds nodes with their   *)
(* capacity and pods with their node, containers, volumes and environment. *)
(* CPU is in millicores.  Memory is in Mi (2^20 bytes): every quantity of  *)
(* the fixture is a whole number of Mi, and a ratio of two memory values   *)
(* is the same in Mi as in bytes.                                          *)
(***************************************************************************)
Gi == 1024

RECURSIVE GCD(_, _)
GCD(a, b) == IF b = 0 THEN a ELSE GCD(b, a % b)

\* A float64 that is the quotient num / den of two non-negative integers,
\* kept exact, in lowest terms (the rounding of the division is left out).
Float(num, den) == [num |-> num \div GCD(num, den), den |-> den \div GCD(num, den)]

\* `float64(allocated) / float64(total) * 100`
Percent(allocated, total) == Float(allocated * 100, total)

Capacities ==
    {[cpu |-> 4000, mem |-> 8 * Gi], [cpu |-> 2000, mem |-> 4 * Gi], [cpu |-> 0, mem |-> 0]}

CapacityNodeLists ==
    UNION { {[i \in 1..n |-> [name |-> i, cpu |-> f[i].cpu, mem |-> f[i].mem]] :
               f \in [1..n -> Capacities]} : n \in 0..MaxNodes }

Container(cpu, mem) == [cpu |-> cpu, mem |-> mem]

\* A volume: Projected is nil (<<>>) or holds the list of its sources.
PlainVolume == [projected |-> <<>>]
ProjectedVolume(sources) == [projected |-> <<sources>>]

IRSAEnv == {"AWS_ROLE_ARN", "AWS_WEB_IDENTITY_TOKEN_FILE"}

WorkloadPod(name, nodeName, containers, volumes, env) ==
    [name |-> name, nodeName |-> nodeName, containers |-> containers,
     volumes |-> volumes, env |-> env]

\* nodeName 0 is a pod bound to no node.
WorkloadCatalogue ==
    <<WorkloadPod(1, 1, <<Container(1000, Gi)>>,
                  <<ProjectedVolume(<<"serviceAccountToken">>)>>, IRSAEnv),
      WorkloadPod(2, 1, <<Container(500, 512), Container(250, 256)>>, <<>>, IRSAEnv),
      WorkloadPod(3, 2, <<Container(2000, 2 * Gi)>>,
                  <<PlainVolume, ProjectedVolume(<<"configMap">>)>>, {}),
      WorkloadPod(4, 0, <<Container(1000, Gi)>>,
                  <<PlainVolume, ProjectedVolume(<<"configMap", "serviceAccountToken">>)>>, {}),
      WorkloadPod(5, 1, <<Container(0, 0)>>, <<ProjectedVolume(<<>>)>>, {}),
      WorkloadPod(6, 2, <<Container(3000, 6 * Gi)>>,
                  <<ProjectedVolume(<<"serviceAccountToken">>)>>, {})>>

WorkloadLists ==
    {[i \in 1..Len(ss) |-> WorkloadCatalogue[ss[i]]] :
        ss \in {SortedSeq(S) : S \in {T \in SUBSET (1..Len(WorkloadCatalogue)) :
                                        Cardinality(T) <= MaxObjects}}}

WorkloadClusters == [nodes : CapacityNodeLists, pods : WorkloadLists]

\* Pods(NamespaceAll).List with the field selector spec.nodeName=<name>.
ListPodsOfAnyNode(c, nodeName) == c.pods

ListPodsOnNode(c, nodeName) == SelectSeq(c.pods, LAMBDA p : p.nodeName = nodeName)

NoResources ==
    [TotalCPU |-> 0, TotalMemory |-> 0, AllocatedCPU |-> 0, AllocatedMemory |-> 0,
     CPUPercentage |-> Float(0, 1), MemPercentage |-> Float(0, 1)]

RECURSIVE AddContainers(_, _)
AddContainers(res, containers) ==
    IF containers = <<>> THEN res
    ELSE AddContainers([res EXCEPT !.AllocatedCPU = @ + Head(containers).cpu,
                                   !.AllocatedMemory = @ + Head(containers).mem],
                       Tail(containers))

RECURSIVE AddPods(_, _)
AddPods(res, pods) ==
    IF pods = <<>> THEN res
    ELSE AddPods(AddContainers(res, Head(pods).containers), Tail(pods))

\* The loop over the nodes; the pod list of node failAt (0: none) fails.
RECURSIVE NodesLoop(_, _, _, _)
NodesLoop(c, nodes, res, failAt) ==
    IF nodes = <<>> THEN [res |-> <<res>>, err |-> ""]
    ELSE LET node == Head(nodes)
             summed == [res EXCEPT !.TotalCPU = @ + node.cpu, !.TotalMemory = @ + node.mem]
         IN IF node.name = failAt THEN [res |-> <<>>, err |-> "failed to list pods for node"]
            ELSE NodesLoop(c, Tail(nodes), AddPods(summed, ListPodsOnNode(c, node.name)),
                           failAt)

GetClusterResources(c, o, failAt) ==
    IF o # "ok" THEN [res |-> <<>>, err |-> "failed to list nodes"]
    ELSE LET r == NodesLoop(c, c.nodes, NoResources, failAt)
         IN IF r.err # "" THEN r
            ELSE LET res == r.res[1]
                 IN [res |-> <<[res EXCEPT
                        !.CPUPercentage =
                            IF res.TotalCPU > 0
                            THEN Percent(res.AllocatedCPU, res.TotalCPU) ELSE @,
                        !.MemPercentage =
                            IF res.TotalMemory > 0
                            THEN Percent(res.AllocatedMemory, res.TotalMemory) ELSE @]>>,
                     err |-> ""]

\* Only the first volume of the pod is looked at.
HasTokenVolumeFirstOnly(volumes) ==
    /\ volumes # <<>>
    /\ Head(volumes).projected # <<>>
    /\ \E i \in 1..Len(Head(volumes).projected[1]) :
           Head(volumes).projected[1][i] = "serviceAccountToken"

RECURSIVE HasTokenSource(_)
HasTokenSource(sources) ==
    IF sources = <<>> THEN FALSE
    ELSE IF Head(sources) = "serviceAccountToken" THEN TRUE
    ELSE HasTokenSource(Tail(sources))

\* The loop over pod.Spec.Volumes that sets hasTokenVolume.
RECURSIVE HasTokenVolume(_)
HasTokenVolume(volumes) ==
    IF volumes = <<>> THEN FALSE
    ELSE LET volume == Head(volumes)
         IN (volume.projected # <<>> /\ HasTokenSource(volume.projected[1]))
               \/ HasTokenVolume(Tail(volumes))

\* Pods(namespace).Get: the pod of that name, or none (<<>>).
GetWorkloadPod(c, name) == SelectSeq(c.pods, LAMBDA p : p.name = name)

ValidatePodWebIdentityToken(c, o, podName) ==
    IF o # "ok" \/ GetWorkloadPod(c, podName) = <<>> THEN "failed to get pod"
    ELSE IF ~HasTokenVolume(GetWorkloadPod(c, podName)[1].volumes)
    THEN "pod does not have service account token volume mounted"
    ELSE ""

CallGetClusterResources ==
    /\ pc = "client"
    /\ \E o \in {"ok", "denied"} : \E failAt \in 0..Len(cluster.nodes) :
         /\ (o # "ok" => failAt = 0)
         /\ results' = Append(results,
                [fn |-> "GetClusterResources", o |-> o, failAt |-> failAt,
                 ret |-> GetClusterResources(cluster, o, failAt)])
         /\ requests' = Sent("list", "nodes")
                          \cup (IF o = "ok" /\ cluster.nodes # <<>>
                                THEN {Request("list", "pods", 0)} ELSE {})
    /\ pc' = "done"
    /\ UNCHANGED <<cluster, acc, ctxDone, status, out, probeVars>>

CallValidatePodWebIdentityToken ==
    /\ pc = "client"
    /\ \E o \in {"ok", "denied"} : \E podName \in 1..Len(WorkloadCatalogue) :
         /\ results' = Append(results,
                [fn |-> "ValidatePodWebIdentityToken", o |-> o, podName |-> podName,
                 ret |-> ValidatePodWebIdentityToken(cluster, o, podName)])
         /\ requests' = requests \cup {Request("get", "pods", podName)}
    /\ pc' = "done"
    /\ UNCHANGED <<cluster, acc, ctxDone, status, out, probeVars>>

InitClient ==
    /\ cluster \in WorkloadClusters
    /\ acc = NoAcc
    /\ ctxDone = FALSE
    /\ pc = "client"
    /\ status = NewClusterHealthStatus
    /\ results = <<>>
    /\ out = NoOutput
    /\ requests = {}
    /\ testPods = {}
    /\ probe = NoProbe

NextClient ==
    \/ CallGetClusterResources
    \/ CallValidatePodWebIdentityToken

SpecClient == InitClient /\ [][NextClient]_vars

(***************************************************************************)
(* The autoscaler diagnostics (debug autoscaler) and the validation of the *)
(* nodegroups they call.  The cluster here is the list of the nodegroups   *)
(* of the EKS cluster, each with what DescribeNodegroup returns for it:    *)
(* ScalingConfig is nil (<<>>) or holds MinSize and MaxSize, each of them  *)
(* nil (<<>>) or a number.                                                 *)
(***************************************************************************)
ScalingConfig(min, max) == <<[MinSize |-> min, MaxSize |-> max]>>

ScalingConfigs ==
    {<<>>, ScalingConfig(<<>>, <<3>>), ScalingConfig(<<1>>, <<>>),
     ScalingConfig(<<1>>, <<3>>), ScalingConfig(<<5>>, <<3>>), ScalingConfig(<<3>>, <<3>>)}

NodegroupLists ==
    UNION { {[i \in 1..n |-> [name |-> i, scaling |-> f[i]]] :
               f \in [1..n -> ScalingConfigs]} : n \in 0..MaxGroups }

NodegroupClusters == [nodegroups : NodegroupLists]

\* What the validation returns: the error ("" is nil, "panic" a nil
\* dereference), the nodegroup it names (0: none) and the number of
\* nodegroups it described.
Validation(err, ng, described) == [err |-> err, ng |-> ng, described |-> described]

\* A nodegroup whose bounds are equal is rejected as well.
CheckScalingStrict(ng, described) ==
    IF ng.scaling = <<>> THEN Validation("panic", ng.name, described)
    ELSE IF ng.scaling[1].MinSize = <<>> \/ ng.scaling[1].MaxSize = <<>>
    THEN Validation("invalid scaling configuration", ng.name, described)
    ELSE IF ng.scaling[1].MinSize[1] >= ng.scaling[1].MaxSize[1]
    THEN Validation("min size greater than max size", ng.name, described)
    ELSE Validation("", 0, described)

\* The two tests on the description of one nodegroup.
CheckScaling(ng, described) ==
    IF ng.scaling = <<>> THEN Validation("panic", ng.name, described)
    ELSE IF ng.scaling[1].MinSize = <<>> \/ ng.scaling[1].MaxSize = <<>>
    THEN Validation("invalid scaling configuration", ng.name, described)
    ELSE IF ng.scaling[1].MinSize[1] > ng.scaling[1].MaxSize[1]
    THEN Validation("min size greater than max size", ng.name, described)
    ELSE Validation("", 0, described)

\* The loop over the nodegroups; DescribeNodegroup of nodegroup failAt
\* (0: none) fails.
RECURSIVE NodegroupsLoop(_, _, _)
NodegroupsLoop(groups, failAt, described) ==
    IF groups = <<>> THEN Validation("", 0, described)
    ELSE LET ng == Head(groups)
         IN IF ng.name = failAt
            THEN Validation("failed to describe nodegroup", ng.name, described)
            ELSE LET checked == CheckScaling(ng, described + 1)
                 IN IF checked.err # "" THEN checked
                    ELSE NodegroupsLoop(Tail(groups), failAt, described + 1)

ValidateNodeGroupsConfig(c, o, failAt) ==
    IF o # "ok" THEN Validation("failed to list nodegroups", 0, 0)
    ELSE NodegroupsLoop(c.nodegroups, failAt, 0)

\* A step of the command that returns its error: `if err != nil { return err }`.
ReturnOnError(next, request, outcomes) ==
    /\ requests' = requests \cup {request}
    /\ \E o \in outcomes :
         IF o = "ok"
         THEN pc' = next /\ UNCHANGED out
         ELSE pc' = "done" /\ out' = [out EXCEPT !.command = "debug autoscaler",
                                                 !.exit = "error"]
    /\ UNCHANGED <<cluster, acc, ctxDone, status, results, probeVars>>

\* 1. The pod of the autoscaler: the list can fail or be empty.
GetClusterAutoscalerPod ==
    /\ pc = "ca.pod"
    /\ ReturnOnError("ca.logs", Request("list", "pods", 0), {"ok", "denied", "none"})

\* 2. The logs of that pod.
GetPodLogs ==
    /\ pc = "ca.logs"
    /\ ReturnOnError("ca.events", Request("log", "pods", 0), {"ok", "denied"})

\* 3. The scaling events.
GetScalingEvents ==
    /\ pc = "ca.events"
    /\ ReturnOnError("ca.nodegroups", Request("list", "events", 0), {"ok", "denied"})

\* 4. The nodegroups: an error is shown as a warning and the command goes on.
CallValidateNodeGroupsConfig ==
    /\ pc = "ca.nodegroups"
    /\ \E o \in {"ok", "denied"} : \E failAt \in 0..Len(cluster.nodegroups) :
         /\ o # "ok" => failAt = 0
         /\ LET ret == ValidateNodeGroupsConfig(cluster, o, failAt)
            IN /\ results' = Append(results, [fn |-> "ValidateNodeGroupsConfig", o |-> o,
                                              failAt |-> failAt, ret |-> ret])
               /\ IF ret.err = "panic"
                  THEN pc' = "panic" /\ UNCHANGED out
                  ELSE /\ pc' = "ca.unschedulable"
                       /\ out' = [out EXCEPT !.sections =
                                      Append(@, <<"nodegroups", ret.err, ret.ng>>)]
         /\ requests' = requests
                \cup {Request("list", "nodegroups", 0)}
                \cup (IF o = "ok" /\ cluster.nodegroups # <<>>
                      THEN {Request("describe", "nodegroups", 0)} ELSE {})
    /\ UNCHANGED <<cluster, acc, ctxDone, status, probeVars>>

\* 5. The unschedulable pods, then the end of the diagnostics.
AnalyzeUnschedulablePods ==
    /\ pc = "ca.unschedulable"
    /\ requests' = requests \cup {Request("list", "pods", 0)}
    /\ \E o \in {"ok", "denied"} :
         out' = [out EXCEPT !.command = "debug autoscaler",
                            !.sections = Append(@, <<"unschedulable", o, 0>>),
                            !.exit = "ok"]
    /\ pc' = "done"
    /\ UNCHANGED <<cluster, acc, ctxDone, status, results, probeVars>>

InitAutoscaler ==
    /\ cluster \in NodegroupClusters
    /\ acc = NoAcc
    /\ ctxDone = FALSE
    /\ pc = "ca.pod"
    /\ status = NewClusterHealthStatus
    /\ results = <<>>
    /\ out = NoOutput
    /\ requests = {}
    /\ testPods = {}
    /\ probe = NoProbe

NextAutoscaler ==
    \/ GetClusterAutoscalerPod
    \/ GetPodLogs
    \/ GetScalingEvents
    \/ CallValidateNodeGroupsConfig
    \/ AnalyzeUnschedulablePods

SpecAutoscaler == InitAutoscaler /\ [][NextAutoscaler]_vars

(***************************************************************************)
(* Properties of the health run.                                           *)
(***************************************************************************)
AllOk == [i \in Ids |-> "ok"]

\* The snapshot of a run on cluster c in which every accessor call succeeds,
\* but for the sub-calls of the auth check, which answer as sub says.
SnapshotOf(c, sub) ==
    LET s1 == checkVersionMismatch(c, NewClusterHealthStatus, "ok").st
        s2 == checkDeprecatedAPIs(c, s1, "ok").st
        s3 == checkLoggingStatus(c, s2, "ok", "ok", "ok").st
        s4 == checkNetworkingStatus(c, s3, "ok", "ok").st
        s5 == checkLoadBalancerStatus(c, s4, "ok", "ok").st
        s6 == checkSchedulingStatus(c, s5, "ok").st
        s7 == checkAuthStatus(c, s6, "ok", sub).st
    IN checkNodeStatus(c, s7, "ok").st

\* The fields of the snapshot each check fills.
FieldsOf(check) ==
    CASE check = "versions" -> {"NodeVersions"}
      [] check = "deprecated-apis" -> {"DeprecatedAPIs"}
      [] check = "logging" -> {"LoggingStatus"}
      [] check = "networking" -> {"NetworkingStatus"}
      [] check = "load-balancers" -> {"LoadBalancerStatus"}
      [] check = "scheduling" -> {"SchedulingStatus"}
      [] check = "auth" -> {"AuthStatus"}
      [] check = "nodes" -> {"NodeStatus"}
      [] OTHER -> {}

Fields == DOMAIN NewClusterHealthStatus

Finished == pc = "done"

Failed == Len(results) > 0 /\ Last.err # NoError

\* C1: a check that fails on an accessor error does not keep the other
\* categories from the report: the run ends with a printed summary over a
\* snapshot in which every category but the failed one holds what a run
\* without the failure gives.
C1_FailureIsIsolated ==
    (Finished /\ Failed /\ Last.err.cause # "ctx") =>
        /\ out.summary # <<>>
        /\ Last.status # <<>>
        /\ \A f \in Fields \ FieldsOf(Last.err.check) :
              Last.status[1][f] = SnapshotOf(cluster, AllOk)[f]

\* C2: every run of CheckClusterHealth ends without a crash and returns a
\* snapshot with all its category fields, whatever the accessors answer.
C2_AlwaysASnapshot ==
    /\ pc # "panic"
    /\ Len(results) > 0 => /\ Last.status # <<>>
                           /\ DOMAIN Last.status[1] = Fields

\* C3: in every printed summary the critical-issue count is at most the
\* total-issue count.
C3_CriticalAtMostTotal ==
    out.summary # <<>> => out.summary[1].criticalIssues <= out.summary[1].totalIssues

\* The pods of account id are gone, or the logs of pod id are empty: the
\* cluster in which the failed sub-call of the auth check finds nothing.
EmptiedAt(c, id) ==
    LET target == Catalogue[id]
        kept == SelectSeq(c.objects, LAMBDA e :
                    ~(/\ target.kind = "serviceaccount"
                      /\ e.obj.kind = "pod"
                      /\ e.obj.ns = target.ns
                      /\ e.obj.sa = target.name))
    IN [c EXCEPT !.objects =
            [i \in 1..Len(kept) |->
                IF kept[i].id = id /\ target.kind = "pod"
                THEN [kept[i] EXCEPT !.obj.logs = {}]
                ELSE kept[i]]]

Answered(sub) == [i \in Ids |-> IF sub[i] = "unset" THEN "ok" ELSE sub[i]]

\* C4: a sub-step of the auth check whose accessor failed (the pods of an
\* annotated service account, the logs of a pod) leaves a result that
\* differs from the one the same sub-step leaves when the accessor answers
\* with nothing.
C4_FailureIsNotZeroFindings ==
    (Len(results) > 0 /\ Last.status # <<>>) =>
        \A id \in Ids :
            acc.sub[id] = "denied" =>
                Last.status[1].AuthStatus #
                    SnapshotOf(EmptiedAt(cluster, id),
                               [Answered(acc.sub) EXCEPT ![id] = "ok"]).AuthStatus

\* C7: when the timeout passes before the checks are through, the command
\* still ends with a printed summary.
C7_TimeoutStillReports ==
    (Finished /\ ctxDone) => (out.summary # <<>> /\ out.exit = "ok")

\* C9: consecutive calls of CheckClusterHealth on an unchanged cluster
\* return equal snapshots, and under a live context equal results.
C9_Idempotent ==
    \A i, j \in 1..Len(results) :
        /\ (results[i].status # <<>> /\ results[j].status # <<>>)
              => results[i].status = results[j].status
        /\ ~ctxDone => results[i] = results[j]

C9_Witness ==
    /\ Len(results) = 2
    /\ results[1].status # <<>>
    /\ results[2].status # <<>>
    /\ Card(results[2].status[1].NodeVersions) > 1
    /\ Len(results[2].status[1].DeprecatedAPIs) > 0

NodeSet(c) == {c.nodes[i] : i \in 1..Len(c.nodes)}

Occurrences(seq, x) == Cardinality({i \in 1..Len(seq) : seq[i] = x})

GroupedByVersion(c, m) ==
    /\ DOMAIN m = {n.version : n \in NodeSet(c)}
    /\ \A n \in NodeSet(c) : \A v \in DOMAIN m :
          Occurrences(m[v], n.name) = IF v = n.version THEN 1 ELSE 0
    /\ \A v \in DOMAIN m : \A i \in 1..Len(m[v]) :
          \E n \in NodeSet(c) : n.name = m[v][i]

\* C10: once checkVersionMismatch is through, NodeVersions has one key per
\* kubelet version of the listed nodes and holds every node name once, under
\* its own version; the summary counts one critical issue when the nodes run
\* more than one version and none otherwise.
C10_NodeVersionsGrouped ==
    /\ pc \in (CheckPositions \ {"checkVersionMismatch"})
          => GroupedByVersion(cluster, status.NodeVersions)
    /\ (Len(results) > 0 /\ Last.status # <<>>)
          => GroupedByVersion(cluster, Last.status[1].NodeVersions)
    /\ out.summary # <<>>
          => out.summary[1].criticalIssues =
                IF Cardinality({n.version : n \in NodeSet(cluster)}) > 1 THEN 1 ELSE 0

C10_Witness ==
    /\ out.summary # <<>>
    /\ out.summary[1].criticalIssues = 1
    /\ Last.status[1].NodeVersions = [v \in {"1.28", "1.29"} |->
                                         IF v = "1.28" THEN <<1>> ELSE <<2, 3>>]

(***************************************************************************)
(* Properties of the networking diagnostics.                               *)
(***************************************************************************)
\* The names of the pods the run has created.
Created == {r.name : r \in {q \in requests : q.verb = "create" /\ q.name # 0}}

\* C5: every disposable pod that TestPodDNS, TestPodConnectivity or CheckMTU
\* created has had a delete request issued for it once the operation has left
\* the pod behind it, whichever way the operation ended (watch error, failed
\* or succeeded pod, closed watch, panic, failed log read).
C5_DeleteIssuedForEveryPod ==
    \A n \in Created :
        probe.pod = <<n>> \/ Request("delete", "pods", n) \in requests

\* All three operations created a pod, the first ended on a watch error and
\* the last on a failed log read, and each pod had its delete request.
C5_Witness ==
    /\ pc = "done"
    /\ probe.op = "CheckMTU"
    /\ probe.result = "logs-error"
    /\ \E l \in 1..Len(out.sections) : out.sections[l] = <<"dns", "watch-error">>
    /\ {1, 2, 3} \subseteq Created
    /\ \A n \in Created : Request("delete", "pods", n) \in requests

\* C6: when the context of the operation is cancelled, no pod of a returned
\* TestPodDNS or TestPodConnectivity remains in the cluster.
C6_CancelledStillDeletes ==
    (ctxDone /\ probe.op \in {"TestPodDNS", "TestPodConnectivity"} /\ probe.pod = <<>>)
        => testPods = {}

ReadVerbs == {"get", "list", "watch", "log"}

\* C8: the run sends no create, update or delete request, and the pods of the
\* cluster after the run are the pods before it.
C8_ReadOnly ==
    /\ \A r \in requests : r.verb \in ReadVerbs
    /\ pc = "done" => testPods = {}

(***************************************************************************)
(* Properties of the summary and of the displays.                          *)
(***************************************************************************)
\* The number of findings of each category of the summary, in its order.
CategoryFindings(snap) ==
    <<IF Card(snap.NodeVersions) > 1 THEN 1 ELSE 0,
      Len(snap.DeprecatedAPIs),
      Len(snap.AuthStatus.IRSAIssues),
      Len(snap.AuthStatus.RBACIssues),
      Len(snap.NodeStatus.NotReady),
      Len(snap.SchedulingStatus.PendingPods),
      Len(snap.LoadBalancerStatus.PendingServices)>>

RecommendationTexts ==
    <<"1. Upgrade nodes to match control plane version",
      "2. Update applications using deprecated APIs",
      "3. Fix IRSA configuration issues",
      "4. Review and fix RBAC issues",
      "5. Investigate nodes in NotReady state",
      "6. Address pod scheduling issues",
      "7. Check LoadBalancer provisioning issues">>

\* One recommendation for each category with a finding, in the fixed order.
OnePerCategory(snap) ==
    LET found == SelectSeq(<<1, 2, 3, 4, 5, 6, 7>>,
                           LAMBDA k : CategoryFindings(snap)[k] > 0)
    IN [i \in 1..Len(found) |-> RecommendationTexts[found[i]]]

\* C11: the summary shows exactly one recommendation for each category that
\* has a finding and none for a category without, in the fixed order; version
\* skew alone shows the recommendation to upgrade the nodes.
C11_OneRecommendationPerCategory ==
    out.summary # <<>> =>
        out.summary[1].recommendations = OnePerCategory(Last.status[1])

\* The findings the total counts, each tagged with its category and position.
CountedFindings(snap) ==
    UNION { {<<k, i>> : i \in 1..CategoryFindings(snap)[k]} : k \in 2..7 }

\* C12: the total of the summary is the number of deprecated-API, IRSA, RBAC,
\* not-ready-node, pending-pod and pending-service findings of the snapshot,
\* each counted once, and nothing else of the snapshot adds to it.
C12_TotalCountsEachFindingOnce ==
    out.summary # <<>> =>
        out.summary[1].totalIssues = Cardinality(CountedFindings(Last.status[1]))

\* A summary over findings of three categories beside a version skew.
C12_Witness ==
    /\ out.summary # <<>>
    /\ out.summary[1].totalIssues = 3
    /\ out.summary[1].criticalIssues = 1
    /\ Len(Last.status[1].NodeStatus.NotReady) > 0
    /\ Len(Last.status[1].SchedulingStatus.PendingPods) > 0
    /\ Len(Last.status[1].DeprecatedAPIs) > 0

\* C13: the version display of either command shows a mismatch exactly when
\* NodeVersions has more than one key, which is exactly when the summary
\* counts a critical issue for the same snapshot.
C13_DisplayAgreesWithCounter ==
    out.versions # <<>> =>
        /\ out.versions[1] = "mismatch" <=> Card(Last.status[1].NodeVersions) > 1
        /\ out.versions[1] = "mismatch" <=>
               printHealthSummary(Last.status[1]).criticalIssues > 0
        /\ out.summary # <<>> =>
               (out.versions[1] = "mismatch" <=> out.summary[1].criticalWarning)

\* The cluster-health report of a skewed cluster: mismatch shown, one critical.
C13_Witness ==
    /\ out.command = "cluster-health"
    /\ out.versions = <<"mismatch">>
    /\ out.summary # <<>>
    /\ out.summary[1].criticalIssues = 1

(***************************************************************************)
(* Properties of the snapshot during a run.                                *)
(***************************************************************************)
Prefix(a, b) == Len(a) <= Len(b) /\ \A i \in 1..Len(a) : a[i] = b[i]

\* The finding collections of a sub-status, a record of sequences.
GrowsIn(a, b, fields) == \A f \in fields : Prefix(a[f], b[f])

\* Every finding collection of snapshot a is a prefix of the one of b.
Grows(a, b) ==
    /\ DOMAIN a.NodeVersions \subseteq DOMAIN b.NodeVersions
    /\ \A v \in DOMAIN a.NodeVersions : Prefix(a.NodeVersions[v], b.NodeVersions[v])
    /\ Prefix(a.DeprecatedAPIs, b.DeprecatedAPIs)
    /\ GrowsIn(a.LoggingStatus, b.LoggingStatus,
               {"FluentBitStatus", "CloudWatchStatus", "MetricsServerStatus"})
    /\ GrowsIn(a.NetworkingStatus, b.NetworkingStatus, {"CNIStatus", "CoreDNSStatus"})
    /\ GrowsIn(a.LoadBalancerStatus, b.LoadBalancerStatus,
               {"PendingServices", "IngressStatus"})
    /\ GrowsIn(a.SchedulingStatus, b.SchedulingStatus, {"PendingPods", "ResourceIssues"})
    /\ GrowsIn(a.AuthStatus, b.AuthStatus, {"IRSAIssues", "RBACIssues", "IAMAuthIssues"})
    /\ GrowsIn(a.NodeStatus, b.NodeStatus, {"NotReady", "ASGIssues", "BootstrapIssues"})

\* C14: within one run every step of a check leaves each finding collection
\* of the snapshot a prefix of what it becomes, and the steps that print the
\* report leave the snapshot and the returned results as they are.
C14_FindingsOnlyGrow ==
    [][/\ pc \in CheckPositions => Grows(status, status')
       /\ (pc = "returned" /\ pc' = "done") => (status' = status /\ results' = results)]_vars

\* The last check has added its findings to a snapshot that already held the
\* findings of earlier checks, and the report has been printed from it.
C14_Witness ==
    /\ pc = "done"
    /\ out.summary # <<>>
    /\ Len(status.DeprecatedAPIs) > 0
    /\ Len(status.SchedulingStatus.PendingPods) > 0
    /\ Len(status.NodeStatus.NotReady) > 0
    /\ Last.status = <<status>>

(***************************************************************************)
(* Properties of the networking check and of the order of the checks.      *)
(***************************************************************************)
\* C19: a health run that returns a snapshot has performed the live DNS
\* probe and the live reachability probe of its networking check (a pod
\* created and watched), whose outcomes DNSResolution and ExternalAccess tell.
C19_NetworkingProbesPerformed ==
    (Len(results) > 0 /\ Last.status # <<>>) =>
        /\ \E r \in requests : r.verb = "create" /\ r.resource = "pods"
        /\ \E r \in requests : r.verb = "watch" /\ r.resource = "pods"

\* The checks in the order of CheckClusterHealth, with the accessor calls of
\* each whose error the check returns.
CheckOrder ==
    <<[pos |-> "checkVersionMismatch", check |-> "versions", sites |-> {"nodes.version"}],
      [pos |-> "checkDeprecatedAPIs", check |-> "deprecated-apis", sites |-> {"deployments"}],
      [pos |-> "checkLoggingStatus", check |-> "logging",
       sites |-> {"pods.fluent-bit", "pods.cloudwatch-agent", "pods.metrics-server"}],
      [pos |-> "checkNetworkingStatus", check |-> "networking",
       sites |-> {"pods.aws-node", "pods.kube-dns"}],
      [pos |-> "checkLoadBalancerStatus", check |-> "load-balancers",
       sites |-> {"services", "ingresses"}],
      [pos |-> "checkSchedulingStatus", check |-> "scheduling", sites |-> {"pods.pending"}],
      [pos |-> "checkAuthStatus", check |-> "auth", sites |-> {"serviceaccounts"}],
      [pos |-> "checkNodeStatus", check |-> "nodes", sites |-> {"nodes.status"}]>>

\* The step of check k: what it must do given how its accessor calls answered.
StepOfCheck(k) ==
    LET sites == CheckOrder[k].sites
        erred == ctxDone \/ \E site \in sites : acc'.site[site] = "denied"
        panicked == ~ctxDone /\ \E site \in sites : acc'.site[site] = "notfound_nil"
    IN IF panicked THEN pc' = "panic" /\ results' = results
       ELSE IF erred
       THEN /\ pc' = "returned"
            /\ Len(results') = Len(results) + 1
            /\ SubSeq(results', 1, Len(results)) = results
            /\ results'[Len(results')].status = <<>>
            /\ results'[Len(results')].err.check = CheckOrder[k].check
       ELSE IF k < Len(CheckOrder)
       THEN pc' = CheckOrder[k + 1].pos /\ results' = results
       ELSE /\ pc' = "returned"
            /\ results' = Append(results, Returned(<<status'>>, NoError))

\* C20: a call runs the checks in the fixed order; the first check whose
\* accessor fails ends the call with that check's error and a nil snapshot,
\* no later check runs, and a call returns a snapshot exactly when it
\* returns no error.
C20_FirstErrorAborts ==
    [][/\ (pc \in {"start", "returned"} /\ pc' \in CheckPositions)
            => pc' = CheckOrder[1].pos
       /\ \A k \in 1..Len(CheckOrder) :
            (pc = CheckOrder[k].pos /\ pc' # pc) => StepOfCheck(k)
       /\ \A i \in 1..Len(results') :
            results'[i].status # <<>> <=> results'[i].err = NoError]_vars

\* A call ended by the networking check: nil snapshot, the accessors of the
\* later checks never called.
C20_Witness ==
    /\ pc = "returned"
    /\ Last.err.check = "networking"
    /\ Last.status = <<>>
    /\ \A k \in 5..8 : \A site \in CheckOrder[k].sites : acc.site[site] = "unset"
    /\ \A k \in 1..3 : \A site \in CheckOrder[k].sites : acc.site[site] = "ok"

(***************************************************************************)
(* Properties of the calls of the cluster client.                          *)
(***************************************************************************)
RECURSIVE SumSeq(_)
SumSeq(numbers) == IF numbers = <<>> THEN 0 ELSE Head(numbers) + SumSeq(Tail(numbers))

\* Whether the pod is bound to a node of the cluster.
BoundToANode(c, p) == \E n \in 1..Len(c.nodes) : c.nodes[n].name = p.nodeName

CapacityCPU(c) == SumSeq([n \in 1..Len(c.nodes) |-> c.nodes[n].cpu])

CapacityMemory(c) == SumSeq([n \in 1..Len(c.nodes) |-> c.nodes[n].mem])

RequestedCPU(c) ==
    SumSeq([i \in 1..Len(c.pods) |->
              IF BoundToANode(c, c.pods[i])
              THEN SumSeq([j \in 1..Len(c.pods[i].containers) |-> c.pods[i].containers[j].cpu])
              ELSE 0])

RequestedMemory(c) ==
    SumSeq([i \in 1..Len(c.pods) |->
              IF BoundToANode(c, c.pods[i])
              THEN SumSeq([j \in 1..Len(c.pods[i].containers) |-> c.pods[i].containers[j].mem])
              ELSE 0])

\* The float x is 100 * allocated / total, or 0 when total is 0.
IsPercentage(x, allocated, total) ==
    IF total = 0 THEN x.num = 0
    ELSE x.num * total = 100 * allocated * x.den

\* One node of 4000m / 8Gi, one pod bound to it that requests 1000m / 1Gi.
ExampleCluster ==
    [nodes |-> <<[name |-> 1, cpu |-> 4000, mem |-> 8 * Gi]>>,
     pods |-> <<WorkloadCatalogue[1]>>]

\* C15: a successful GetClusterResources returns the summed node capacities,
\* the summed container requests of the pods bound to the nodes, and the
\* percentages 100 * allocated / total (0 for a total of 0); the example
\* cluster gives 25 and 12.5.
C15_ResourcePercentages ==
    \A i \in 1..Len(results) :
        (results[i].fn = "GetClusterResources" /\ results[i].ret.err = "") =>
            LET res == results[i].ret.res[1]
            IN /\ res.TotalCPU = CapacityCPU(cluster)
               /\ res.TotalMemory = CapacityMemory(cluster)
               /\ res.AllocatedCPU = RequestedCPU(cluster)
               /\ res.AllocatedMemory = RequestedMemory(cluster)
               /\ IsPercentage(res.CPUPercentage, RequestedCPU(cluster), CapacityCPU(cluster))
               /\ IsPercentage(res.MemPercentage, RequestedMemory(cluster),
                               CapacityMemory(cluster))
               /\ cluster = ExampleCluster =>
                    /\ res.CPUPercentage = [num |-> 25, den |-> 1]
                    /\ res.MemPercentage = [num |-> 25, den |-> 2]

\* The call on the example cluster has returned 25 and 12.5.
C15_Witness ==
    /\ cluster = ExampleCluster
    /\ Len(results) = 1
    /\ results[1].fn = "GetClusterResources"
    /\ results[1].ret.err = ""
    /\ results[1].ret.res[1].CPUPercentage = [num |-> 25, den |-> 1]
    /\ results[1].ret.res[1].MemPercentage = [num |-> 25, den |-> 2]

\* Some volume of the pod is projected and has a service-account-token source.
MountsToken(p) ==
    \E v \in 1..Len(p.volumes) :
        /\ p.volumes[v].projected # <<>>
        /\ \E k \in 1..Len(p.volumes[v].projected[1]) :
               p.volumes[v].projected[1][k] = "serviceAccountToken"

\* C16: for a pod that the call could read, ValidatePodWebIdentityToken
\* returns an error exactly when no volume of the pod is a projected volume
\* with a service-account-token source, whatever the environment of the pod;
\* a pod that could not be read gives the error of the read.
C16_TokenVolumeDecides ==
    \A i \in 1..Len(results) :
        results[i].fn = "ValidatePodWebIdentityToken" =>
            LET found == GetWorkloadPod(cluster, results[i].podName)
            IN IF results[i].o = "ok" /\ found # <<>>
               THEN results[i].ret # "" <=> ~MountsToken(found[1])
               ELSE results[i].ret = "failed to get pod"

\* A pod with AWS_ROLE_ARN set and no token volume got the error, the pod
\* beside it whose second volume has the token source did not matter.
C16_Witness ==
    /\ Len(results) = 1
    /\ results[1].fn = "ValidatePodWebIdentityToken"
    /\ results[1].o = "ok"
    /\ results[1].podName = 2
    /\ cluster.pods = <<WorkloadCatalogue[2], WorkloadCatalogue[4]>>
    /\ results[1].ret = "pod does not have service account token volume mounted"

(***************************************************************************)
(* Properties of the validation of the nodegroups.                         *)
(***************************************************************************)
Nodegroups == {cluster.nodegroups[i] : i \in 1..Len(cluster.nodegroups)}

HasBounds(ng) ==
    ng.scaling # <<>> /\ ng.scaling[1].MinSize # <<>> /\ ng.scaling[1].MaxSize # <<>>

WellScaled(ng) == HasBounds(ng) /\ ng.scaling[1].MinSize[1] <= ng.scaling[1].MaxSize[1]

IsError(err) == err \notin {"", "panic"}

C18_MalformedGroupIsAFinding ==
    (Len(results) > 0 /\ results[1].o = "ok" /\ results[1].failAt = 0) =>
        /\ pc # "panic"
        /\ (pc = "done" /\ out.exit = "ok") =>
              \A ng \in Nodegroups :
                  ~HasBounds(ng) =>
                      \E l \in 1..Len(out.sections) :
                          out.sections[l] = <<"nodegroups", "invalid scaling configuration",
                                              ng.name>>

(***************************************************************************)
(* The eight checks run in an arbitrary order on one snapshot, every       *)
(* accessor call succeeding: acc tells the call sites already answered,   *)
(* pc whether the checks so far ran in the order of CheckClusterHealth.    *)
(***************************************************************************)
\* Check k of the list applied to the snapshot st.
CheckResult(k, c, st) ==
    CASE k = 1 -> checkVersionMismatch(c, st, "ok")
      [] k = 2 -> checkDeprecatedAPIs(c, st, "ok")
      [] k = 3 -> checkLoggingStatus(c, st, "ok", "ok", "ok")
      [] k = 4 -> checkNetworkingStatus(c, st, "ok", "ok")
      [] k = 5 -> checkLoadBalancerStatus(c, st, "ok", "ok")
      [] k = 6 -> checkSchedulingStatus(c, st, "ok")
      [] k = 7 -> checkAuthStatus(c, st, "ok", AllOk)
      [] k = 8 -> checkNodeStatus(c, st, "ok")

HasRun(k) == \A site \in CheckOrder[k].sites : acc.site[site] = "ok"

AllHaveRun == \A k \in 1..Len(CheckOrder) : HasRun(k)

\* Check k is the next one in the order of CheckClusterHealth.
IsNextInOrder(k) ==
    /\ pc \in {"start", "ordered"}
    /\ \A j \in 1..Len(CheckOrder) : HasRun(j) <=> j < k

\* One of the checks that has not run yet runs on the snapshot.
RunCheck ==
    /\ pc \in {"start", "ordered", "reordered"}
    /\ \E k \in 1..Len(CheckOrder) :
         /\ ~HasRun(k)
         /\ status' = CheckResult(k, cluster, status).st
         /\ acc' = [acc EXCEPT !.site = [s \in SiteNames |->
                        IF s \in CheckOrder[k].sites THEN "ok" ELSE @[s]]]
         /\ pc' = IF IsNextInOrder(k) THEN "ordered" ELSE "reordered"
    /\ UNCHANGED <<cluster, ctxDone, results, out, requests, probeVars>>

\* `return status, nil` once the eight checks have run.
ReturnStatus ==
    /\ pc \in {"ordered", "reordered"}
    /\ AllHaveRun
    /\ results' = Append(results, Returned(<<status>>, NoError))
    /\ pc' = "returned"
    /\ UNCHANGED <<cluster, acc, ctxDone, status, out, requests, probeVars>>

InitAnyOrder ==
    /\ cluster \in Clusters
    /\ acc = NoAcc
    /\ ctxDone = FALSE
    /\ pc = "start"
    /\ status = NewClusterHealthStatus
    /\ results = <<>>
    /\ out = NoOutput
    /\ requests = {}
    /\ testPods = {}
    /\ probe = NoProbe

NextAnyOrder ==
    \/ RunCheck
    \/ ReturnStatus

SpecAnyOrder == InitAnyOrder /\ [][NextAnyOrder]_vars

NotScheduled(e) ==
    \E i \in 1..Len(e.obj.conds) :
        e.obj.conds[i].type = "PodScheduled" /\ e.obj.conds[i].status = "False"

\* C22: the pending-pod issues of a returned snapshot are exactly the pods
\* in phase Pending that have a PodScheduled condition with status False,
\* each with the message of that condition as its reason; a Pending pod
\* without such a condition has no issue.
C22_IssuesAreUnscheduledPods ==
    (Len(results) > 0 /\ Last.status # <<>>) =>
        LET unscheduled == SelectSeq(ListPodsByPhase(cluster, "Pending"), NotScheduled)
        IN Last.status[1].SchedulingStatus.PendingPods =
               [i \in 1..Len(unscheduled) |-> PodSchedulingIssue(unscheduled[i])]

HasReadyTrue(node) ==
    \E i \in 1..Len(node.conds) :
        node.conds[i].type = "Ready" /\ node.conds[i].status = "True"

\* The bootstrap issues the conditions other than Ready give for a node.
OtherFalseConditions(node) ==
    LET others == SelectSeq(node.conds,
                      LAMBDA cd : cd.type # "Ready" /\ cd.status = "False")
    IN [i \in 1..Len(others) |-> <<"Node", node.name, others[i].type, others[i].message>>]

\* C23: in a returned snapshot NotReady holds, once each, the nodes without
\* a Ready condition of status True, and BootstrapIssues holds for each of
\* these nodes one issue per condition other than Ready whose status is
\* False, with its type and message; the Ready condition gives no issue.
C23_BootstrapIssuesOfOtherConditions ==
    (Len(results) > 0 /\ Last.status # <<>>) =>
        LET notReady == SelectSeq(ListNodes(cluster), LAMBDA node : ~HasReadyTrue(node))
        IN /\ Last.status[1].NodeStatus.NotReady =
                  [i \in 1..Len(notReady) |-> notReady[i].name]
           /\ Last.status[1].NodeStatus.BootstrapIssues =
                  Concat([i \in 1..Len(notReady) |-> OtherFalseConditions(notReady[i])])

(***************************************************************************)
(* Termination of the probes.                                              *)
(***************************************************************************)
\* The positions at which a probe waits for an event of its pod.
ProbeWaits == {"dns.events", "conn.events"}

\* C24: a call of TestPodDNS or TestPodConnectivity that waits for its pod
\* eventually returns, also when the pod reaches no terminal phase and the
\* watch stays open.
C24_ProbesReturn == (pc \in ProbeWaits) ~> (pc \notin ProbeWaits)

(***************************************************************************)
(* Properties of the fields of the snapshot.                               *)
(***************************************************************************)
\* C25: in a returned snapshot SchedulingStatus.ResourceIssues holds one
\* record for each node of the cluster, under the node's name (the record
\* of the node's capacity, allocation and utilization).
C25_ResourceIssuesPerNode ==
    (Len(results) > 0 /\ Last.status # <<>>) =>
        LET issues == Last.status[1].SchedulingStatus.ResourceIssues
        IN /\ Len(issues) = Len(ListNodes(cluster))
           /\ \A i \in 1..Len(issues) : issues[i].NodeName = ListNodes(cluster)[i].name

(***************************************************************************)
(* Properties of the printed report.                                       *)
(***************************************************************************)
\* C26: a printed summary that counts a critical issue (more than one
\* kubelet version among the nodes) does not carry the verdict "No issues
\* found - cluster is healthy!".
C26_HealthyOnlyWithoutCritical ==
    out.summary # <<>> =>
        (out.summary[1].criticalIssues > 0 => ~out.summary[1].healthy)

IssueNodes(ns) == {ns.BootstrapIssues[i][2] : i \in 1..Len(ns.BootstrapIssues)}

NotReadyNodes(ns) == {ns.NotReady[i] : i \in 1..Len(ns.NotReady)}

\* C28: in every returned snapshot each bootstrap issue names a node that
\* is in NotReady, and a node whose Ready condition is True is in neither
\* list, whatever its other conditions are.
C28_BootstrapIssuesOfNotReadyNodes ==
    \A r \in 1..Len(results) :
        results[r].status # <<>> =>
            LET ns == results[r].status[1].NodeStatus
            IN /\ IssueNodes(ns) \subseteq NotReadyNodes(ns)
               /\ \A node \in NodeSet(cluster) :
                     HasReadyTrue(node) =>
                         node.name \notin IssueNodes(ns) \cup NotReadyNodes(ns)

\* A snapshot with a bootstrap issue, of a cluster that also has a ready
\* node with a condition of status False.
C28_Witness ==
    /\ Len(results) > 0
    /\ Last.status # <<>>
    /\ IssueNodes(Last.status[1].NodeStatus) # {}
    /\ \E node \in NodeSet(cluster) :
          /\ HasReadyTrue(node)
          /\ \E i \in 1..Len(node.conds) : node.conds[i].status = "False"

\* C29: in every returned snapshot RBACIssues, IAMAuthIssues and ASGIssues
\* are empty, so the RBAC term of the total is 0, and no printed summary
\* holds the RBAC recommendation.
C29_UnfilledFieldsStayEmpty ==
    /\ \A r \in 1..Len(results) :
          results[r].status # <<>> =>
              /\ results[r].status[1].AuthStatus.RBACIssues = <<>>
              /\ results[r].status[1].AuthStatus.IAMAuthIssues = <<>>
              /\ results[r].status[1].NodeStatus.ASGIssues = <<>>
    /\ out.summary # <<>> =>
          \A l \in 1..Len(out.summary[1].recommendations) :
              out.summary[1].recommendations[l] # "4. Review and fix RBAC issues"

\* A printed summary with recommendations, over a snapshot in which the
\* auth check and the node check both left findings.
C29_Witness ==
    /\ out.summary # <<>>
    /\ Len(out.summary[1].recommendations) >= 2
    /\ Len(Last.status[1].AuthStatus.IRSAIssues) > 0
    /\ Len(Last.status[1].NodeStatus.BootstrapIssues) > 0
    /\ \E i \in 1..Len(cluster.objects) :
          /\ cluster.objects[i].obj.kind = "serviceaccount"
          /\ RoleArnKey \in DOMAIN cluster.objects[i].obj.annotations

(***************************************************************************)
(* The TLS diagnostics (debug tls).  A certificate is told by the number   *)
(* of days until its NotAfter (negative when it has expired); every        *)
(* certificate of the fixture is past its NotBefore.  The cluster holds    *)
(* the certificate the API server presents, the certificates of the TLS    *)
(* secrets of its ingresses by host and of its services by name.  results  *)
(* holds what each accessor returned to the command: a nil certificate is  *)
(* <<>>, a nil map the empty map.                                          *)
(***************************************************************************)
CertificateDays == {0 - 5, 10, 60, 400}

TLSClusters ==
    [api : CertificateDays,
     ingress : UNION {[hs -> CertificateDays] : hs \in SUBSET {"shop.example.com"}},
     services : UNION {[ss -> CertificateDays] : ss \in SUBSET {"payments"}}]

\* The certificates whose secret could be read and parsed: the others are
\* skipped with continue.
ReadableCerts(certs) == {[k \in ks |-> certs[k]] : ks \in SUBSET DOMAIN certs}

\* validateCertChain on each certificate: the resources it fails for.
ChainIssues(prefix, certs) == {<<prefix, k>> : k \in {x \in DOMAIN certs : certs[x] < 0}}

\* How a certificate is shown: the expiry warning under 30 days.
ShowCertificate(days) == IF days < 30 THEN "expires" ELSE "valid"

TLSCallReturned(fn, value, err) == Append(results, [fn |-> fn, value |-> value, err |-> err])

GetAPIServerCertificate ==
    /\ pc = "tls.api"
    /\ \E err \in {"", "API server URL is not HTTPS", "failed to connect to API server",
                   "no certificates found"} :
         /\ results' = TLSCallReturned("GetAPIServerCertificate",
                                       IF err = "" THEN <<cluster.api>> ELSE <<>>, err)
         /\ out' = [out EXCEPT !.command = "debug tls",
                               !.sections = Append(@, <<"api-server",
                                   IF err # "" THEN "warning" ELSE ShowCertificate(cluster.api)>>)]
    /\ pc' = "tls.ingress"
    /\ UNCHANGED <<cluster, acc, ctxDone, status, requests, probeVars>>

GetIngressTLSCertificates ==
    /\ pc = "tls.ingress"
    /\ \E o \in {"ok", "denied"}, certs \in ReadableCerts(cluster.ingress) :
         /\ results' = TLSCallReturned("GetIngressTLSCertificates",
                                       IF o = "ok" THEN certs ELSE EmptyMap,
                                       IF o = "ok" THEN "" ELSE "failed to list ingresses")
         /\ out' = [out EXCEPT !.sections = Append(@, <<"ingress",
                                   IF o # "ok" THEN "warning"
                                   ELSE IF certs = EmptyMap THEN "none" ELSE "shown">>)]
    /\ requests' = Sent("list", "ingresses") \cup {Request("get", "secrets", 0)}
    /\ pc' = "tls.services"
    /\ UNCHANGED <<cluster, acc, ctxDone, status, probeVars>>

GetServiceCertificates ==
    /\ pc = "tls.services"
    /\ \E o \in {"ok", "denied"}, certs \in ReadableCerts(cluster.services) :
         /\ results' = TLSCallReturned("GetServiceCertificates",
                                       IF o = "ok" THEN certs ELSE EmptyMap,
                                       IF o = "ok" THEN "" ELSE "failed to list services")
         /\ out' = [out EXCEPT !.sections = Append(@, <<"services",
                                   IF o # "ok" THEN "warning"
                                   ELSE IF certs = EmptyMap THEN "none" ELSE "shown">>)]
    /\ requests' = Sent("list", "services") \cup {Request("get", "secrets", 0)}
    /\ pc' = "tls.chains"
    /\ UNCHANGED <<cluster, acc, ctxDone, status, probeVars>>

\* The ingress and the service certificates are fetched again and each is
\* validated; the first listing that fails ends the call.
ValidateCertificateChains ==
    /\ pc = "tls.chains"
    /\ \E o1 \in {"ok", "denied"}, ingressCerts \in ReadableCerts(cluster.ingress) :
       \E o2 \in IF o1 = "ok" THEN {"ok", "denied"} ELSE {"unset"} :
       \E svcCerts \in ReadableCerts(cluster.services) :
         LET err == IF o1 # "ok" THEN "failed to get ingress certificates"
                    ELSE IF o2 # "ok" THEN "failed to get service certificates" ELSE ""
             issues == IF err # "" THEN {}
                       ELSE ChainIssues("ingress", ingressCerts)
                              \cup ChainIssues("service", svcCerts)
         IN /\ results' = TLSCallReturned("ValidateCertificateChains", issues, err)
            /\ out' = [out EXCEPT !.sections = Append(@, <<"chains",
                                      IF err # "" THEN "warning"
                                      ELSE IF issues = {} THEN "valid" ELSE "issues">>)]
    /\ requests' = Sent("list", "ingresses") \cup Sent("list", "services")
                      \cup {Request("get", "secrets", 0)}
    /\ pc' = "tls.recommend"
    /\ UNCHANGED <<cluster, acc, ctxDone, status, probeVars>>

\* The recommendations: `time.Until(apiCert.NotAfter)` is evaluated first,
\* whatever GetAPIServerCertificate returned.
ProvideRecommendations ==
    /\ pc = "tls.recommend"
    /\ LET apiCert == results[1].value
           ingCerts == results[2].value
           chainIssues == results[4].value
       IN IF apiCert = <<>>
          THEN /\ pc' = "panic"
               /\ out' = [out EXCEPT !.sections = Append(@, <<"recommendations">>)]
          ELSE /\ pc' = "done"
               /\ out' = [out EXCEPT
                     !.sections = Append(@, <<"recommendations">>),
                     !.summary =
                        (IF apiCert[1] < 90 THEN <<"1. Plan to rotate API server certificate">>
                         ELSE <<>>)
                        \o (IF \E host \in DOMAIN ingCerts : ingCerts[host] < 30
                            THEN <<"2. Renew certificate">> ELSE <<>>)
                        \o (IF chainIssues # {}
                            THEN <<"3. Fix certificate chain issues for identified resources">>
                            ELSE <<>>),
                     !.exit = "ok"]
    /\ UNCHANGED <<cluster, acc, ctxDone, status, results, requests, probeVars>>

InitTLS ==
    /\ cluster \in TLSClusters
    /\ acc = NoAcc
    /\ ctxDone = FALSE
    /\ pc = "tls.api"
    /\ status = NewClusterHealthStatus
    /\ results = <<>>
    /\ out = NoOutput
    /\ requests = {}
    /\ testPods = {}
    /\ probe = NoProbe

NextTLS ==
    \/ GetAPIServerCertificate
    \/ GetIngressTLSCertificates
    \/ GetServiceCertificates
    \/ ValidateCertificateChains
    \/ ProvideRecommendations

SpecTLS == InitTLS /\ [][NextTLS]_vars

\* C30: the command does not crash, whatever its accessors return; when the
\* API server certificate could not be fetched it has printed the warning
\* and it goes through the ingress, service and chain checks to the end of
\* the recommendations.
C30_TLSCompletesWithoutCertificate ==
    /\ pc # "panic"
    /\ (pc \notin {"tls.api", "tls.ingress", "tls.services", "tls.chains", "tls.recommend"}
          /\ results[1].err # "") =>
            /\ pc = "done"
            /\ out.exit = "ok"
            /\ out.sections[1] = <<"api-server", "warning">>
            /\ Len(out.sections) = 5

====
